---- MODULE Spec2Model ----
(***************************************************************************)
(* Execution orchestration core of sunny_agent: the L3 ReAct engine        *)
(* (Thinker / Actor / Observer), the tool registries, the ambient context  *)
(* (session_id, agent_depth), the Todo store and the skill script          *)
(* allow-list.  Each subsystem has its own specification over the shared   *)
(* variables; the variables a specification does not use stay at their     *)
(* initial value.                                                           *)
(***************************************************************************)
EXTENDS Integers, Sequences, FiniteSets, TLC

VARIABLES
    \* ---- one L3ReActEngine execution (react_engine.py) ----
    mode,            \* entry point: "execute" | "execute_stream" | "execute_raw"
    config,          \* L3Config of the engine
    pc,              \* position of the coroutine
    step,            \* loop variable of `for step in range(max_iterations)`
    messages,        \* the LLM context, a sequence of message records
    think_result,    \* tool_calls of the last ThinkResult (<<>> = is_done)
    llm_call_count,  \* observer.budget.llm_call_count
    use_tools,       \* per thinker.think call: the step and whether tool schemas were passed
    ambient,         \* the engine's context and the Token sid_token of its set_session_id
    trace,           \* observer.trace.steps
    elapsed,         \* observer.elapsed_seconds
    result,          \* what the call handed to its caller
    events,          \* the events execute_stream has yielded so far
    \* ---- ambient context, subagent_call and the Todo store ----
    root_ctx,        \* ContextVars of the task running the top-level engine
    frames,          \* stack of subagent_call.execute invocations, innermost last
    sibling,         \* a second subagent_call of the same Act step as the innermost one
    todo_store,      \* Redis: session key -> stored Todo list
    tool_result,     \* the ToolResult the last finished tool call returned
    cancel,          \* cancellation of the top-level task: "none" | "requested" | "propagated"
    \* ---- RestrictedToolRegistry over a parent ToolRegistry (tools/registry.py) ----
    parent_tools,    \* parent._tools: names registered in the shared registry
    filtered,        \* whether the sub-agent's config.tool_filter is not None
    allow_list,      \* allowed_tools given to the constructor
    view_tools,      \* self._tools of the restricted registry
    view_call,       \* the last execute() on the restricted registry
    view_obs,        \* the observations the sub-agent's Actor built for that request
    \* ---- Todo injection (react_engine.py _inject_todo_reminder) ----
    injections,      \* how many times the injection ran on `messages`
    contents,        \* messages[0].content at the start and after each injection
    \* ---- SkillRegistry and skill_exec ----
    skills,          \* SkillRegistry._skills: name -> script_tools
    exec_call,       \* the last skill_exec.execute
    \* ---- one Actor.act call (actor.py) ----
    act_calls,       \* think_result.tool_calls given to act
    act_tasks,       \* one task per request: running, or done with what execute gave
    act_order,       \* indices of the requests in the order their tasks completed
    act_outcome,     \* what act handed to the engine
    \* ---- one L1FastTrack execution (fast_track.py) ----
    l1_mode,         \* "execute" or "execute_stream"
    l1_schemas,      \* tool_schemas: the names of the tools whose schemas L1 holds
    l1_pc,           \* "idle", "call", "tools", "stream" or "done"
    l1_step,         \* the loop variable step
    l1_calls,        \* the LLM calls made so far, each with its response
    l1_messages,     \* the messages list
    l1_out,          \* how the execution ended
    \* ---- one ExecutionRouter call (router.py) ----
    route,           \* intent_result.route
    engines_called,  \* the engines the router has invoked for this call
    \* ---- services around the engines ----
    sandbox,         \* sandbox_service/main.py: _containers, Docker's containers, the /exec requests
    memory           \* memory/working_memory.py: the stored history and the append_message calls

engineVars == <<mode, config, pc, step, messages, think_result,
                llm_call_count, use_tools, ambient, trace, elapsed, result, events>>

ctxVars == <<root_ctx, frames, sibling, todo_store, tool_result, cancel>>

viewVars == <<parent_tools, filtered, allow_list, view_tools, view_call, view_obs>>

injectVars == <<injections, contents>>

skillVars == <<skills, exec_call>>

actVars == <<act_calls, act_tasks, act_order, act_outcome>>

l1Vars == <<l1_mode, l1_schemas, l1_pc, l1_step, l1_calls, l1_messages, l1_out>>

routerVars == <<route, engines_called>>

serviceVars == <<sandbox, memory>>

vars == <<engineVars, ctxVars, viewVars, injectVars, skillVars, actVars, l1Vars, routerVars, serviceVars>>

\* What each subsystem leaves alone.
nonEngineVars == <<ctxVars, viewVars, injectVars, skillVars, actVars, l1Vars,
                   routerVars, serviceVars>>
nonCtxVars == <<engineVars, viewVars, injectVars, skillVars, actVars, l1Vars,
                   routerVars, serviceVars>>
nonViewVars == <<engineVars, ctxVars, injectVars, skillVars, actVars, l1Vars,
                   routerVars, serviceVars>>
nonInjectVars == <<mode, config, pc, step, think_result, llm_call_count, use_tools, ambient,
                   trace,
                   elapsed, result, events, frames, sibling, tool_result, cancel, viewVars, skillVars, actVars,
                   l1Vars, routerVars, serviceVars>>
nonSkillVars == <<engineVars, ctxVars, viewVars, injectVars, actVars, l1Vars,
                   routerVars, serviceVars>>
nonActVars == <<engineVars, ctxVars, viewVars, injectVars, skillVars, l1Vars,
                   routerVars, serviceVars>>
nonL1Vars == <<engineVars, ctxVars, viewVars, injectVars, skillVars, actVars,
                   routerVars, serviceVars>>

----------------------------------------------------------------------------
(* Bounds of the model *)

MaxIterations == 3      \* largest L3Config.max_iterations explored
MaxLlmCalls == 3        \* largest L3Config.max_llm_calls explored
MaxElapsed == 2         \* the clock runs from 0 to MaxElapsed seconds
MaxToolCalls == 3       \* most tool calls the LLM asks for in one execution
MaxDepth == 2           \* largest max_depth among the agent definitions
MaxTodos == 2           \* longest Todo list written
MaxPrompt == 4          \* longest system prompt, in tokens
MaxInjections == 3      \* most injections applied to one message list
MaxRequests == 2        \* most tool requests in the ThinkResult given to one act
MaxExecs == 3           \* most /exec requests sent to the sandbox service
MaxAppends == 3         \* most append_message calls on the one session

WORKING_MEMORY_MAX_TURNS == 20   \* config.py: rounds kept in the history

CallIds == {"c1", "c2"}                \* tool_call ids the LLM assigns
ToolNames == {"web_search"}            \* tool names the LLM asks for
ToolStatus == {"success", "error"}     \* status field of a ToolResult JSON

----------------------------------------------------------------------------
(* Helpers *)

SeqsUpTo(S, n) == UNION {[1..k -> S] : k \in 0..n}

NoResult == [kind |-> "none", is_degraded |-> FALSE, degrade_reason |-> "none"]

NoToolResult == [tool |-> "none", depth |-> 0, status |-> "none", todos |-> <<>>]

NoViewCall == [name |-> "none", status |-> "none", error |-> "none", invoked |-> "none"]

NoActResult ==
    [kind |-> "none", error |-> "none", observations |-> <<>>, messages |-> <<>>]

NoExecCall == [skill_name |-> <<>>, script |-> <<>>, status |-> "none", ran |-> <<>>,
               proc |-> [timeout |-> FALSE, returncode |-> 0, stdout |-> "none",
                         status |-> "absent"]]

----------------------------------------------------------------------------
(* schemas.py: ReasoningTrace *)

HasStep(steps, s) == \E i \in 1..Len(steps) : steps[i].step = s

StepIndex(steps, s) == CHOOSE i \in 1..Len(steps) :
    /\ steps[i].step = s
    /\ \A j \in 1..(i - 1) : steps[j].step # s

ReasoningTrace_add_thought(steps, s) ==
    IF HasStep(steps, s)
    THEN [steps EXCEPT ![StepIndex(steps, s)].thought = TRUE]
    ELSE Append(steps, [step |-> s, thought |-> TRUE, observations |-> <<>>])

\* Variant: every action opens a new step record instead of joining its step's.
ReasoningTrace_add_action_alwaysAppend(steps, s, tool, res) ==
    Append(steps, [step |-> s, thought |-> FALSE,
                   observations |-> <<[tool |-> tool, result |-> res]>>])

ReasoningTrace_add_action(steps, s, tool, res) ==
    LET base == IF HasStep(steps, s) THEN steps
                ELSE Append(steps, [step |-> s, thought |-> FALSE, observations |-> <<>>])
        i == StepIndex(base, s)
    IN [base EXCEPT ![i].observations = Append(@, [tool |-> tool, result |-> res])]

\* summarize_observations: one "- tool: result[:500]" line per observation,
\* steps in order and each step's observations in order.  The results of
\* this model are single words, which the slice leaves whole.
RECURSIVE ReasoningTrace_summarize_observations(_)
ReasoningTrace_summarize_observations(steps) ==
    IF steps = <<>> THEN <<>>
    ELSE Head(steps).observations \o ReasoningTrace_summarize_observations(Tail(steps))

\* to_tool_call_records: one ToolCall per (action, observation) pair, steps
\* in order; result is the observation's result and status is the literal
\* "success".
ReasoningTrace_to_tool_call_records(steps) ==
    LET obs == ReasoningTrace_summarize_observations(steps)
    IN [k \in 1..Len(obs) |->
           [tool_name |-> obs[k].tool, result |-> obs[k].result,
            status |-> "success"]]

----------------------------------------------------------------------------
(* token_budget.py: TokenBudget *)

TokenBudget_add_usage(count) == count + 1

\* Variant: the budget counts as exhausted only once it is exceeded.
TokenBudget_is_exhausted_strict(count, cfg) == count > cfg.max_llm_calls

TokenBudget_is_exhausted(count, cfg) == count >= cfg.max_llm_calls

TokenBudget_to_dict(count) == [llm_calls |-> count]

----------------------------------------------------------------------------
(* observer.py: Observer *)

\* A subscript d["k"] of a dict raises KeyError when the key is absent.
HasKey(d, k) == k \in DOMAIN d

Observer_should_stop(secs, count, cfg) ==
    IF secs > cfg.timeout_seconds
    THEN [raised |-> FALSE, stop |-> TRUE, reason |-> "timeout"]
    ELSE IF TokenBudget_is_exhausted(count, cfg)
    THEN IF HasKey(TokenBudget_to_dict(count), "total_tokens")
         THEN [raised |-> FALSE, stop |-> TRUE, reason |-> "budget"]
         ELSE [raised |-> TRUE, stop |-> FALSE, reason |-> "KeyError"]
    ELSE [raised |-> FALSE, stop |-> FALSE, reason |-> "none"]

RECURSIVE OnActFrom(_, _, _, _)
OnActFrom(steps, s, observations, k) ==
    IF k > Len(observations) THEN steps
    ELSE OnActFrom(ReasoningTrace_add_action(steps, s, observations[k].tool_name,
                                             observations[k].result),
                   s, observations, k + 1)

Observer_on_act(steps, s, observations) == OnActFrom(steps, s, observations, 1)

----------------------------------------------------------------------------
(* actor.py: Actor *)

ToolCallRequests == [id : CallIds, name : ToolNames]

Msg(role, tcs, tcid, content) ==
    [role |-> role, tool_calls |-> tcs, tool_call_id |-> tcid, content |-> content]

Actor_build_assistant_message(tool_calls) ==
    Msg("assistant", [k \in 1..Len(tool_calls) |-> tool_calls[k].id], "none", "thought")

\* Variant: a request whose tool failed gets no tool message.
Actor_act_dropsFailed(tool_calls, results) ==
    [observations |->
         [k \in 1..Len(tool_calls) |->
             [tool_name |-> tool_calls[k].name,
              tool_call_id |-> tool_calls[k].id,
              result |-> results[k]]],
     messages |->
         <<Msg("assistant", [k \in 1..Len(tool_calls) |-> tool_calls[k].id],
               "none", "thought")>> \o
         SelectSeq([k \in 1..Len(tool_calls) |->
                       Msg("tool", <<>>, tool_calls[k].id, results[k])],
                   LAMBDA m : m.content # "error")]

\* results[k] is what tool_registry.execute returned for tool_calls[k]; gather
\* hands the results back in the order of the requests.
Actor_act(tool_calls, results) ==
    IF Len(tool_calls) = 0
    THEN [observations |-> <<>>, messages |-> <<>>]
    ELSE [observations |->
              [k \in 1..Len(tool_calls) |->
                  [tool_name |-> tool_calls[k].name,
                   tool_call_id |-> tool_calls[k].id,
                   result |-> results[k]]],
          messages |->
              <<Actor_build_assistant_message(tool_calls)>> \o
              [k \in 1..Len(tool_calls) |->
                  Msg("tool", <<>>, tool_calls[k].id, results[k])]]

----------------------------------------------------------------------------
(* agent_context.py / session_context.py: ContextVar set and Token reset *)

\* Variant: the new depth is not stored in the context.
set_agent_depth_notStored(ctx, depth) == [ctx |-> ctx, token |-> ctx.agent_depth]

\* ContextVar.set returns a Token holding the value the variable had.
set_agent_depth(ctx, depth) ==
    [ctx |-> [ctx EXCEPT !.agent_depth = depth], token |-> ctx.agent_depth]

\* Variant: the reset puts the variable back to its default instead of the
\* value the token holds.
reset_agent_depth_toDefault(ctx, token) == [ctx EXCEPT !.agent_depth = 0]

reset_agent_depth(ctx, token) == [ctx EXCEPT !.agent_depth = token]

set_session_id(ctx, sid) ==
    [ctx |-> [ctx EXCEPT !.session_id = sid], token |-> ctx.session_id]

\* Variant: the reset clears the variable instead of restoring the token's value.
reset_session_id_toEmpty(ctx, token) == [ctx EXCEPT !.session_id = ""]

reset_session_id(ctx, token) == [ctx EXCEPT !.session_id = token]

----------------------------------------------------------------------------
(* react_engine.py: L3ReActEngine *)

Modes == {"execute", "execute_stream", "execute_raw"}

Configs == [max_iterations : 0..MaxIterations,
            timeout_seconds : 1..MaxElapsed,
            max_llm_calls : 1..MaxLlmCalls]

InitialMessages == <<Msg("system", <<>>, "none", "prompt"),
                     Msg("user", <<>>, "none", "input")>>

Returned(degraded, reason) ==
    [kind |-> "returned", is_degraded |-> degraded, degrade_reason |-> reason]

Raised(error) ==
    [kind |-> "raised", is_degraded |-> FALSE, degrade_reason |-> error]

L3_build_result == Returned(FALSE, "none")

\* The log call of _graceful_degrade reads to_dict()["total_tokens"] before
\* the ExecutionResult is built.
L3_graceful_degrade(steps, count, reason) ==
    LET summary == ReasoningTrace_summarize_observations(steps)
        reply == IF summary # <<>> THEN [kind |-> "summary", parts |-> summary]
                 ELSE [kind |-> "apology", parts |-> <<>>]
    IN IF HasKey(TokenBudget_to_dict(count), "total_tokens")
       THEN [kind |-> "returned", is_degraded |-> TRUE, degrade_reason |-> reason,
             reply |-> reply]
       ELSE Raised("KeyError")

\* execute_stream builds its finish event from to_dict()["total_tokens"].
L3_finish(m, count) ==
    IF m = "execute_stream" /\ ~HasKey(TokenBudget_to_dict(count), "total_tokens")
    THEN Raised("KeyError")
    ELSE L3_build_result

\* execute_stream yields `new` in order; a finish event is the last of them
\* and its dict is built from to_dict()["total_tokens"], so with the key
\* missing the events before it have gone out and the finish has not.  The
\* other two methods yield nothing.  The LLM's thought is taken as non-empty.
L3_yield(m, evs, new, count) ==
    IF m # "execute_stream" THEN evs
    ELSE evs \o SelectSeq(new, LAMBDA e :
                    \/ e \notin {"finish", "finish_degraded"}
                    \/ HasKey(TokenBudget_to_dict(count), "total_tokens"))

\* execute and execute_stream: sid_token = set_session_id(session_id) before
\* the try, here with the session "s1"; execute_raw leaves the context alone.
L3_enter(m, ctx) ==
    IF m = "execute_raw" THEN [ctx |-> ctx, token |-> ctx.session_id]
    ELSE set_session_id(ctx, "s1")

\* Variant: the reset is skipped.
L3_finally_noReset(m, amb) == amb

\* finally: reset_session_id(sid_token), on return and on exception alike.
L3_finally(m, amb) ==
    IF m = "execute_raw" THEN amb
    ELSE [amb EXCEPT !.ctx = reset_session_id(amb.ctx, amb.token)]

EngineIdle ==
    /\ mode = "execute"
    /\ config = [max_iterations |-> 0, timeout_seconds |-> 1, max_llm_calls |-> 1]
    /\ pc = "idle"
    /\ step = 0
    /\ messages = <<>>
    /\ think_result = <<>>
    /\ llm_call_count = 0
    /\ use_tools = <<>>
    /\ ambient = [ctx |-> [agent_depth |-> 0, session_id |-> ""], token |-> ""]
    /\ trace = <<>>
    /\ elapsed = 0
    /\ result = NoResult
    /\ events = <<>>

CtxIdle ==
    /\ root_ctx = [agent_depth |-> 0, session_id |-> ""]
    /\ frames = <<>>
    /\ sibling = <<>>
    /\ todo_store = [k \in {""} |-> <<>>]
    /\ tool_result = NoToolResult
    /\ cancel = "none"

ViewIdle ==
    /\ parent_tools = {}
    /\ filtered = TRUE
    /\ allow_list = {}
    /\ view_tools = {}
    /\ view_call = NoViewCall
    /\ view_obs = <<>>

InjectIdle ==
    /\ injections = 0
    /\ contents = <<>>

SkillIdle ==
    /\ skills = <<>>
    /\ exec_call = NoExecCall

ActIdle ==
    /\ act_calls = <<>>
    /\ act_tasks = <<>>
    /\ act_order = <<>>
    /\ act_outcome = NoActResult

L1Idle ==
    /\ l1_mode = "execute"
    /\ l1_schemas = {}
    /\ l1_pc = "idle"
    /\ l1_step = 0
    /\ l1_calls = <<>>
    /\ l1_messages = <<>>
    /\ l1_out = [kind |-> "none", reply |-> "none"]

\* No /exec request has arrived and no container exists; the session has no
\* history and no append_message call has started.
ServicesIdle ==
    /\ sandbox = [containers |-> <<>>, live |-> {}, made |-> 0,
                  reqs |-> [r \in 1..MaxExecs |-> [pc |-> "idle", container |-> 0]]]
    /\ memory = [history |-> <<>>,
                 calls |-> [c \in 1..MaxAppends |-> [pc |-> "idle", read |-> <<>>]]]

RouterIdle ==
    /\ route = "standard_l1"
    /\ engines_called = <<>>

EngineInit ==
    /\ CtxIdle /\ ViewIdle /\ InjectIdle /\ SkillIdle /\ ActIdle /\ L1Idle /\ RouterIdle
    /\ ServicesIdle
    /\ mode \in Modes
    /\ config \in Configs
    /\ pc = "loop"
    /\ step = 0
    /\ messages = InitialMessages
    /\ think_result = <<>>
    /\ llm_call_count = 0
    /\ use_tools = <<>>
    /\ ambient = L3_enter(mode, [agent_depth |-> 0, session_id |-> "s0"])
    /\ trace = <<>>
    /\ elapsed = 0
    /\ result = NoResult
    /\ events = <<>>

\* The for loop has run max_iterations times: fall out of it and return.
LoopExhausted ==
    /\ pc = "loop"
    /\ step >= config.max_iterations
    /\ pc' = "done"
    /\ result' = L3_finish(mode, llm_call_count)
    /\ events' = L3_yield(mode, events,
                          IF llm_call_count > 0 THEN <<"delta", "finish">>
                          ELSE <<"finish">>, llm_call_count)
    /\ ambient' = IF pc' = "done" THEN L3_finally(mode, ambient) ELSE ambient
    /\ UNCHANGED nonEngineVars
    /\ UNCHANGED <<mode, config, step, messages, think_result, llm_call_count,
                   use_tools, trace, elapsed>>

\* Head of an iteration: the circuit-breaker check.
CircuitCheck ==
    /\ pc = "loop"
    /\ step < config.max_iterations
    /\ LET s == Observer_should_stop(elapsed, llm_call_count, config)
       IN IF s.raised
          THEN pc' = "done" /\ result' = Raised(s.reason)
          ELSE IF s.stop
          THEN pc' = "done" /\ result' = L3_graceful_degrade(trace, llm_call_count, s.reason)
          ELSE pc' = "think" /\ result' = result
    /\ events' = IF result'.kind = "returned"
                 THEN L3_yield(mode, events, <<"delta", "finish_degraded">>,
                               llm_call_count)
                 ELSE events
    /\ ambient' = IF pc' = "done" THEN L3_finally(mode, ambient) ELSE ambient
    /\ UNCHANGED nonEngineVars
    /\ UNCHANGED <<mode, config, step, messages, think_result, llm_call_count,
                   use_tools, trace, elapsed>>

\* The tool calls asked for so far: one tool message each.
ToolCallsMade(msgs) == Len(SelectSeq(msgs, LAMBDA m : m.role = "tool"))

\* Variant: the tool schemas are passed on every iteration.
UseTools_always(s, cfg) == TRUE

\* use_tools = tool_schemas if step < max_iterations - 1 else None
UseTools(s, cfg) == s < cfg.max_iterations - 1

\* Called without tools the LLM cannot ask for any.
LLMResponses(s, cfg, msgs) ==
    IF UseTools(s, cfg)
    THEN SeqsUpTo(ToolCallRequests, MaxToolCalls - ToolCallsMade(msgs))
    ELSE {<<>>}

\* thinker.think returns, observer.on_think records it; is_done breaks the loop.
Think ==
    /\ pc = "think"
    /\ \E tcs \in LLMResponses(step, config, messages), t \in elapsed..MaxElapsed :
        /\ think_result' = tcs
        /\ elapsed' = t
        /\ trace' = ReasoningTrace_add_thought(trace, step)
        /\ llm_call_count' = TokenBudget_add_usage(llm_call_count)
        /\ use_tools' = Append(use_tools, [step |-> step, tools |-> UseTools(step, config)])
        /\ IF Len(tcs) = 0
           THEN /\ pc' = "done" /\ result' = L3_finish(mode, llm_call_count')
                /\ events' = L3_yield(mode, events, <<"thought", "delta", "finish">>,
                                      llm_call_count')
           ELSE /\ pc' = "act" /\ result' = result
                /\ events' = L3_yield(mode, events, <<"thought">>, llm_call_count')
    /\ ambient' = IF pc' = "done" THEN L3_finally(mode, ambient) ELSE ambient
    /\ UNCHANGED nonEngineVars
    /\ UNCHANGED <<mode, config, step, messages>>

\* The LLM client raises (LLMError) or the task is cancelled while thinking.
ThinkRaises ==
    /\ pc = "think"
    /\ \E e \in {"LLMError", "CancelledError"} :
        /\ pc' = "done"
        /\ result' = Raised(e)
    /\ use_tools' = Append(use_tools, [step |-> step, tools |-> UseTools(step, config)])
    /\ ambient' = IF pc' = "done" THEN L3_finally(mode, ambient) ELSE ambient
    /\ UNCHANGED nonEngineVars
    /\ UNCHANGED <<mode, config, step, messages, think_result, llm_call_count,
                   trace, elapsed, events>>

\* actor.act returns, observer.on_act records it, the messages are appended.
Act ==
    /\ pc = "act"
    /\ \E results \in [1..Len(think_result) -> ToolStatus], t \in elapsed..MaxElapsed :
        LET act_result == Actor_act(think_result, results)
        IN /\ trace' = Observer_on_act(trace, step, act_result.observations)
           /\ messages' = messages \o act_result.messages
           /\ events' = L3_yield(mode, events,
                                 [k \in 1..(2 * Len(act_result.observations)) |->
                                     IF k % 2 = 1 THEN "tool_call" ELSE "tool_result"],
                                 llm_call_count)
           /\ elapsed' = t
    /\ step' = step + 1
    /\ pc' = "loop"
    /\ ambient' = IF pc' = "done" THEN L3_finally(mode, ambient) ELSE ambient
    /\ UNCHANGED nonEngineVars
    /\ UNCHANGED <<mode, config, think_result, llm_call_count, use_tools, result>>

\* act raises and nothing is appended: the task is cancelled while the tools
\* run (CancelledError), or a tool request ended cancelled on its own and
\* the results loop cannot unpack it (TypeError).
ActCancelled ==
    /\ pc = "act"
    /\ pc' = "done"
    /\ \E e \in {"CancelledError", "TypeError"} : result' = Raised(e)
    /\ ambient' = IF pc' = "done" THEN L3_finally(mode, ambient) ELSE ambient
    /\ UNCHANGED nonEngineVars
    /\ UNCHANGED <<mode, config, step, messages, think_result, llm_call_count,
                   use_tools, trace, elapsed, events>>

EngineNext ==
    \/ LoopExhausted
    \/ CircuitCheck
    \/ Think
    \/ ThinkRaises
    \/ Act
    \/ ActCancelled

EngineSpec == EngineInit /\ [][EngineNext]_vars

----------------------------------------------------------------------------
(* tools/registry.py: ToolRegistry.execute *)

\* How an invoked tool can end inside asyncio.wait_for.
\* "timeout" is wait_for's own timeout; "timeout_error" is a TimeoutError the
\* tool raises itself, which the same except clause catches.
ToolOutcomes == {"success", "fail", "timeout", "timeout_error", "exception", "cancelled"}

\* Variant: CancelledError is caught with the other exceptions and answered
\* with an Error result.
ToolRegistry_execute_swallowsCancel(tools, name, outcome) ==
    IF name \notin tools
    THEN [name |-> name, status |-> "error", error |-> "unknown tool", invoked |-> "none"]
    ELSE IF outcome = "success"
    THEN [name |-> name, status |-> "success", error |-> "none", invoked |-> name]
    ELSE [name |-> name, status |-> "error", error |-> outcome, invoked |-> name]

\* ToolRegistry.execute over the registry's own _tools.
ToolRegistry_execute(tools, name, outcome) ==
    IF name \notin tools
    THEN [name |-> name, status |-> "error", error |-> "unknown tool", invoked |-> "none"]
    ELSE IF outcome = "success"
    THEN [name |-> name, status |-> "success", error |-> "none", invoked |-> name]
    ELSE IF outcome = "cancelled"
    THEN [name |-> name, status |-> "raised", error |-> "CancelledError", invoked |-> name]
    ELSE IF outcome \in {"timeout", "timeout_error"}
    THEN [name |-> name, status |-> "error", error |-> "timeout", invoked |-> name]
    ELSE [name |-> name, status |-> "error", error |-> outcome, invoked |-> name]

----------------------------------------------------------------------------
(* todo/store.py: TodoStore; tools/builtin_tools/todo_write.py *)

TodoStatus == {"pending", "in_progress", "completed", "cancelled"}

TodoLists == SeqsUpTo(TodoStatus, MaxTodos)

Sessions == {"s1"}

\* cache/redis_client.py: the key builders class RedisKeys defines.
RedisKeys ==
    {"token_blacklist", "working_memory", "codebook", "rate_limit", "template",
     "alert_event"}

\* TodoStore.get: the empty session id is never read; RedisKeys.todo(...) is
\* evaluated inside the try block, and any Exception there (the attribute
\* lookup on RedisKeys included) is logged and answered with the empty list.
TodoStore_get(store, session_id) ==
    IF session_id = "" THEN <<>>
    ELSE IF "todo" \notin RedisKeys THEN <<>>
    ELSE store[session_id]

\* Variant: one key for every session, written without any guard.
TodoStore_set_oneKey(store, session_id, todos) ==
    [s \in DOMAIN store |-> todos]

\* TodoStore.set: the empty session id is never written; an Exception in the
\* try block is logged and the write is dropped.
TodoStore_set(store, session_id, todos) ==
    IF session_id = "" THEN store
    ELSE IF "todo" \notin RedisKeys THEN store
    ELSE [store EXCEPT ![session_id] = todos]

----------------------------------------------------------------------------
(* subagents/loader.py: SubAgentConfig; tools/builtin_tools/subagent_call.py *)

\* The agents the registry holds: one per backend type.
Agents == [researcher |-> [type |-> "local_l3", max_depth |-> MaxDepth],
           coder |-> [type |-> "local_code", max_depth |-> MaxDepth],
           remote |-> [type |-> "http", max_depth |-> 1]]

AgentNames == DOMAIN Agents

\* How the awaited backend can end, as seen by subagent_call.
BackendOutcomes(type) ==
    IF type = "local_l3" THEN {"returned", "raised", "cancelled"}
    ELSE IF type = "local_code" THEN {"returned", "exception", "cancelled"}
    ELSE {"returned", "timeout", "http_status", "exception", "cancelled"}

\* What subagent_call.execute hands back for each of them: local_l3 has no
\* except clause, the other two turn Exception into an Error result;
\* cancellation is no Exception and leaves through the finally block.
SubAgentStatus(type, outcome) ==
    IF outcome = "returned" THEN "success"
    ELSE IF outcome = "cancelled" THEN "cancelled"
    ELSE IF type = "local_l3" THEN "raised"
    ELSE "error"

\* Variant: the guard lets a call through at depth = max_depth.
DepthExceeded_offByOne(current_depth, max_depth) == current_depth > max_depth

\* The depth guard of subagent_call.execute: current_depth >= config.max_depth.
DepthExceeded(current_depth, max_depth) == current_depth >= max_depth

\* The session id the sub-agent's subtree runs under: set_session_id("").
SubAgentSessionId(current) == ""

\* The ContextVars of the code that is running now: the top-level engine's
\* task, or the task of the innermost subagent_call.
Ambient == IF frames = <<>> THEN root_ctx ELSE frames[Len(frames)].ctx

\* A tool call can be issued by the top-level engine or by a running
\* local_l3 sub-agent (local_code and http backends run outside the registry).
CanCallTools ==
    IF frames = <<>> THEN TRUE
    ELSE /\ frames[Len(frames)].pc = "running"
         /\ frames[Len(frames)].type = "local_l3"

Frame(agent, type, at, status, ctx, entry, depth_token, sid_token) ==
    [agent |-> agent, type |-> type, pc |-> at, status |-> status, ctx |-> ctx,
     entry |-> entry, depth_token |-> depth_token, sid_token |-> sid_token]

CtxInit ==
    /\ EngineIdle /\ ViewIdle /\ InjectIdle /\ SkillIdle /\ ActIdle /\ L1Idle /\ RouterIdle
    /\ ServicesIdle
    /\ root_ctx = [agent_depth |-> 0, session_id |-> "s1"]
    /\ frames = <<>>
    /\ sibling = <<>>
    /\ todo_store = [s \in Sessions |-> <<>>]
    /\ tool_result = NoToolResult
    /\ cancel = "none"

\* subagent_call.execute returns an Error before touching the context:
\* empty arguments, unknown agent, depth guard, or a local_code entry that
\* cannot be loaded.  The tool call runs in its own task (asyncio.gather in
\* Actor.act), whose context is a copy of the caller's.
SubagentCallRejected ==
    /\ cancel = "none"
    /\ CanCallTools
    /\ \E name \in AgentNames \cup {"", "ghost"} :
        /\ \/ name \notin AgentNames
           \/ /\ name \in AgentNames
              /\ \/ DepthExceeded(Ambient.agent_depth, Agents[name].max_depth)
                 \/ Agents[name].type = "local_code"
        /\ frames' = Append(frames,
                Frame(name, "none", "finished", "error", Ambient, Ambient, 0, ""))
    /\ UNCHANGED <<root_ctx, sibling, todo_store, tool_result, cancel>>
    /\ UNCHANGED nonCtxVars

\* subagent_call.execute passes the guards, sets depth + 1 and the empty
\* session id, and awaits the backend.
SubagentCallStart ==
    /\ cancel = "none"
    /\ CanCallTools
    /\ \E name \in AgentNames :
        /\ ~DepthExceeded(Ambient.agent_depth, Agents[name].max_depth)
        /\ LET d == set_agent_depth(Ambient, Ambient.agent_depth + 1)
               n == set_session_id(d.ctx, SubAgentSessionId(d.ctx.session_id))
           IN frames' = Append(frames,
                   Frame(name, Agents[name].type, "running", "none", n.ctx, Ambient,
                         d.token, n.token))
    /\ UNCHANGED <<root_ctx, sibling, todo_store, tool_result, cancel>>
    /\ UNCHANGED nonCtxVars

\* The backend ends; the finally block resets both variables, then the call
\* returns its ToolResult or lets the exception through.
SubagentCallEnd ==
    /\ frames # <<>>
    /\ frames[Len(frames)].pc = "running"
    /\ \E outcome \in IF cancel = "requested" THEN {"cancelled"}
                       ELSE BackendOutcomes(frames[Len(frames)].type) :
        LET f == frames[Len(frames)]
            c == reset_session_id(reset_agent_depth(f.ctx, f.depth_token), f.sid_token)
        IN frames' = [frames EXCEPT ![Len(frames)] =
                        [f EXCEPT !.pc = "finished",
                                  !.status = SubAgentStatus(f.type, outcome),
                                  !.ctx = c]]
    /\ UNCHANGED <<root_ctx, sibling, todo_store, tool_result, cancel>>
    /\ UNCHANGED nonCtxVars

\* How ToolRegistry.execute sees the end of subagent_call.execute.  A
\* CancelledError reaches it from the cancelled task, from wait_for's own
\* timeout (which cancels the tool and raises TimeoutError), or from the tool.
RegistryOutcomes(status, cancelling) ==
    IF status = "success" THEN {"success"}
    ELSE IF status = "error" THEN {"fail"}
    ELSE IF status = "raised" THEN {"exception"}
    ELSE IF cancelling THEN {"cancelled"}
    ELSE {"cancelled", "timeout"}

\* The caller's gather collects the finished call; its task and context go
\* away.  When the top-level task is being cancelled, gather raises
\* CancelledError in the caller whatever the call handed back, and the
\* caller's engine has no handler: from the outermost call it reaches the
\* code that awaits the top-level engine.
SubagentCallCollected ==
    /\ frames # <<>>
    /\ frames[Len(frames)].pc = "finished"
    /\ \A k \in DOMAIN sibling : sibling[k].pc = "finished"
    /\ frames' = SubSeq(frames, 1, Len(frames) - 1)
    /\ sibling' = <<>>
    /\ \E outcome \in RegistryOutcomes(frames[Len(frames)].status, cancel = "requested") :
        tool_result' = [tool |-> "subagent_call", depth |-> Len(frames) - 1,
                        status |-> ToolRegistry_execute({"subagent_call"}, "subagent_call",
                                                        outcome).status,
                        todos |-> <<>>]
    /\ cancel' = IF cancel = "requested" /\ Len(frames) = 1 THEN "propagated" ELSE cancel
    /\ UNCHANGED <<root_ctx, todo_store>>
    /\ UNCHANGED nonCtxVars

\* Variant: the requests of one Act step run in one shared context, so a
\* request sees what the request running next to it has set.
TaskContext_shared(caller, running) == running

\* asyncio.gather wraps each _execute_one coroutine in a Task, and a Task
\* runs in a copy of the context of the code that created it.
TaskContext(caller, running) == caller

\* A second subagent_call of the Act step that issued the innermost call
\* reaches its depth guard while that call is in flight or just finished:
\* it is rejected, or sets depth + 1 and the empty session id in its own
\* context and awaits its backend.
SiblingCallStart ==
    /\ cancel = "none"
    /\ frames # <<>>
    /\ sibling = <<>>
    /\ \E name \in AgentNames :
        LET caller == IF Len(frames) = 1 THEN root_ctx ELSE frames[Len(frames) - 1].ctx
            own == TaskContext(caller, frames[Len(frames)].ctx)
            d == set_agent_depth(own, own.agent_depth + 1)
            n == set_session_id(d.ctx, SubAgentSessionId(d.ctx.session_id))
        IN sibling' =
            IF DepthExceeded(own.agent_depth, Agents[name].max_depth)
            THEN <<Frame(name, "none", "finished", "error", own, own, 0, "")>>
            ELSE <<Frame(name, Agents[name].type, "running", "none", n.ctx, own,
                         d.token, n.token)>>
    /\ UNCHANGED <<root_ctx, frames, todo_store, tool_result, cancel>>
    /\ UNCHANGED nonCtxVars

\* The sibling's backend ends and its finally block resets its context.
SiblingCallEnd ==
    /\ sibling # <<>>
    /\ sibling[1].pc = "running"
    /\ \E outcome \in IF cancel = "requested" THEN {"cancelled"}
                       ELSE BackendOutcomes(sibling[1].type) :
        LET f == sibling[1]
            c == reset_session_id(reset_agent_depth(f.ctx, f.depth_token), f.sid_token)
        IN sibling' = <<[f EXCEPT !.pc = "finished",
                                  !.status = SubAgentStatus(f.type, outcome),
                                  !.ctx = c]>>
    /\ UNCHANGED <<root_ctx, frames, todo_store, tool_result, cancel>>
    /\ UNCHANGED nonCtxVars

\* The task running the top-level engine is cancelled while a tool call is
\* in flight: CancelledError is thrown into the innermost await.
CancelTask ==
    /\ cancel = "none"
    /\ frames # <<>>
    /\ frames[Len(frames)].pc = "running"
    /\ cancel' = "requested"
    /\ UNCHANGED <<root_ctx, frames, sibling, todo_store, tool_result>>
    /\ UNCHANGED nonCtxVars

\* todo_write.execute called by the code that is running now.
TodoWriteBy(depth, ctx) ==
    \E todos \in TodoLists :
        /\ cancel = "none"
        /\ todo_store' = TodoStore_set(todo_store, ctx.session_id, todos)
        /\ tool_result' = [tool |-> "todo_write", depth |-> depth,
                           status |-> "success", todos |-> todos]

\* todo_write by the top-level agent (no sub-agent running).
ParentTodoWrite ==
    /\ frames = <<>>
    /\ TodoWriteBy(0, root_ctx)
    /\ UNCHANGED <<root_ctx, frames, sibling, cancel>>
    /\ UNCHANGED nonCtxVars

\* todo_write by a running local_l3 sub-agent.
SubAgentTodoWrite ==
    /\ frames # <<>>
    /\ CanCallTools
    /\ TodoWriteBy(Len(frames), Ambient)
    /\ UNCHANGED <<root_ctx, frames, sibling, cancel>>
    /\ UNCHANGED nonCtxVars

\* todo_write of the parent running next to the sub-agent: a sibling request
\* of the same Act step, outside the sub-agent's subtree.
SiblingTodoWrite ==
    /\ frames # <<>>
    /\ TodoWriteBy(0, root_ctx)
    /\ UNCHANGED <<root_ctx, frames, sibling, cancel>>
    /\ UNCHANGED nonCtxVars

\* What the sub-agent's subtree does.
SubtreeNext ==
    \/ frames # <<>> /\ SubagentCallRejected
    \/ frames # <<>> /\ SubagentCallStart
    \/ SubagentCallEnd
    \/ Len(frames) > 1 /\ SubagentCallCollected
    \/ SubAgentTodoWrite

CtxNext ==
    \/ SubagentCallRejected
    \/ SubagentCallStart
    \/ SubagentCallEnd
    \/ SubagentCallCollected
    \/ ParentTodoWrite
    \/ SubAgentTodoWrite
    \/ SiblingTodoWrite
    \/ CancelTask

CtxSpec == CtxInit /\ [][CtxNext]_vars

\* Two subagent_call requests of one Act step, at any nesting depth; the
\* second is followed from its guard to its end next to the first.
SiblingNext ==
    \/ sibling = <<>> /\ SubagentCallRejected
    \/ sibling = <<>> /\ SubagentCallStart
    \/ SubagentCallEnd
    \/ SubagentCallCollected
    \/ SiblingCallStart
    \/ SiblingCallEnd

SiblingSpec == CtxInit /\ [][SiblingNext]_vars

----------------------------------------------------------------------------
(* Properties of subagent_call and the ambient context (CtxSpec) *)

\* C3: when subagent_call.execute has finished, on any path and for every
\* backend, the agent_depth of its context equals the value at its entry.
C3_DepthRestored ==
    \A i \in 1..Len(frames) :
        frames[i].pc = "finished" => frames[i].ctx.agent_depth = frames[i].entry.agent_depth

C3_Witness ==
    /\ Len(frames) = 2
    /\ frames[2].pc = "finished"
    /\ frames[2].type = "local_l3"
    /\ frames[2].status = "raised"
    /\ frames[2].entry.agent_depth = 1

\* C6: no step of a sub-agent's subtree (its todo_write calls included)
\* changes the Todo list stored for the parent's session.
C6_SubtreeKeepsParentTodos ==
    [][SubtreeNext => todo_store'[root_ctx.session_id] = todo_store[root_ctx.session_id]]_vars

C6_Witness ==
    /\ frames # <<>>
    /\ frames[Len(frames)].pc = "running"
    /\ tool_result.tool = "todo_write"
    /\ tool_result.depth = Len(frames)
    /\ tool_result.status = "success"
    /\ tool_result.todos # todo_store[root_ctx.session_id]

\* C11: TodoStore.set(session, L) followed by TodoStore.get(session), with no
\* other write to that session in between, returns L.
C11_SetThenGetReturnsList ==
    (tool_result.tool = "todo_write" /\ tool_result.depth = 0)
    => TodoStore_get(todo_store, root_ctx.session_id) = tool_result.todos

\* C12: subagent_call at ambient depth >= the agent's max_depth returns an
\* Error result, starts no backend, and leaves the ambient depth as it was.
C12_DepthGuardRejects ==
    \A i \in 1..Len(frames) :
        (/\ frames[i].agent \in AgentNames
         /\ frames[i].entry.agent_depth >= Agents[frames[i].agent].max_depth)
        => /\ frames[i].type = "none"
           /\ frames[i].pc = "finished"
           /\ frames[i].status = "error"
           /\ frames[i].ctx.agent_depth = frames[i].entry.agent_depth

C12_Witness ==
    /\ Len(frames) = MaxDepth + 1
    /\ frames[Len(frames)].agent = "researcher"
    /\ frames[Len(frames)].entry.agent_depth = MaxDepth
    /\ frames[Len(frames)].status = "error"
    /\ \A i \in 1..MaxDepth : frames[i].agent = "researcher" /\ frames[i].pc = "running"

\* C13: the agent_depth seen inside a running sub-agent is at most that
\* agent's max_depth, so a chain of nested subagent_call invocations never
\* holds more running sub-agents than the largest max_depth, self-delegation
\* included.
C13_DepthBounded ==
    /\ \A i \in 1..Len(frames) :
        frames[i].pc = "running"
        => frames[i].ctx.agent_depth <= Agents[frames[i].agent].max_depth
    /\ \E a \in AgentNames :
        Len(SelectSeq(frames, LAMBDA f : f.pc = "running")) <= Agents[a].max_depth

C13_Witness ==
    /\ Len(frames) = MaxDepth
    /\ \A i \in 1..MaxDepth :
        /\ frames[i].agent = "researcher"
        /\ frames[i].pc = "running"
        /\ frames[i].ctx.agent_depth = i

\* C32: while a sub-agent runs, the session_id of its context is the empty
\* string at every level of the subtree; when subagent_call has finished, on
\* any path, the session_id of its context is the one at its entry, and the
\* outermost call was entered with the parent's session, which is the session
\* a todo_write of the parent addresses afterwards.
C32_SessionClearedAndRestored ==
    /\ \A i \in 1..Len(frames) :
        /\ frames[i].pc = "running" => frames[i].ctx.session_id = ""
        /\ frames[i].pc = "finished" => frames[i].ctx.session_id = frames[i].entry.session_id
        /\ i > 1 => frames[i].entry.session_id = ""
    /\ frames # <<>> => frames[1].entry.session_id = root_ctx.session_id
    /\ (frames # <<>> /\ frames[Len(frames)].pc = "running") => Ambient.session_id = ""
    /\ root_ctx.session_id = "s1"

C32_Witness ==
    /\ Len(frames) = 1
    /\ frames[1].pc = "finished"
    /\ frames[1].type = "local_l3"
    /\ frames[1].status \in {"raised", "cancelled"}
    /\ frames[1].ctx.session_id = "s1"
    /\ tool_result.tool = "todo_write"
    /\ tool_result.depth = 0
    /\ tool_result.status = "success"

\* C15: when the task running the top-level engine is cancelled while a tool
\* call is in flight (nested sub-agents included), every subagent_call in
\* flight ends by cancellation with its context restored, ToolRegistry.execute
\* re-raises instead of returning a result, and when the outermost call has
\* unwound the cancellation has reached the engine's caller.
C15_CancellationPropagates ==
    /\ [](cancel # "none" =>
            \A i \in 1..Len(frames) :
                frames[i].pc = "finished" =>
                    /\ frames[i].status = "cancelled"
                    /\ frames[i].ctx = frames[i].entry)
    /\ [][(cancel = "requested" /\ Len(frames') < Len(frames))
            => /\ tool_result'.tool = "subagent_call"
               /\ tool_result'.status = "raised"
               /\ (frames' = <<>> => cancel' = "propagated")]_vars
    /\ [](cancel = "propagated" => frames = <<>>)

C15_Witness ==
    /\ cancel = "propagated"
    /\ frames = <<>>
    /\ tool_result = [tool |-> "subagent_call", depth |-> 0, status |-> "raised",
                      todos |-> <<>>]

----------------------------------------------------------------------------
(* tools/registry.py: ToolRegistry and RestrictedToolRegistry *)

ToolUniverse == {"web_search", "danger_tool", "ghost_tool", "subagent_call"}

\* Variant: the view works on the parent's tool table itself.
RestrictedToolRegistry_init_sharesParent(parent, allowed) == parent

\* RestrictedToolRegistry.__init__: the allowed names the parent has.
RestrictedToolRegistry_init(parent, allowed) ==
    {name \in allowed : name \in parent}

RestrictedToolRegistry_execute(tools, name, outcome) ==
    IF name \notin tools
    THEN [name |-> name, status |-> "error", error |-> "PermissionError", invoked |-> "none"]
    ELSE ToolRegistry_execute(tools, name, outcome)

\* Variant: the sub-engine is built over the shared registry whatever the
\* tool_filter.
SubToolRegistry_shared(parent, has_filter, tool_filter) == parent

\* _execute_local_l3: a RestrictedToolRegistry when config.tool_filter is not
\* None, the shared registry itself otherwise.
SubToolRegistry(parent, has_filter, tool_filter) ==
    IF has_filter THEN RestrictedToolRegistry_init(parent, tool_filter) ELSE parent

ViewInit ==
    /\ EngineIdle /\ CtxIdle /\ InjectIdle /\ SkillIdle /\ ActIdle /\ L1Idle /\ RouterIdle
    /\ ServicesIdle
    /\ parent_tools \in SUBSET ToolUniverse
    /\ filtered \in BOOLEAN
    /\ allow_list \in IF filtered THEN SUBSET ToolUniverse ELSE {{}}
    /\ view_tools = SubToolRegistry(parent_tools, filtered, allow_list)
    /\ view_call = NoViewCall
    /\ view_obs = <<>>

\* The sub-agent's Actor executes a tool request on the sub-engine's
\* registry and builds the observation; a CancelledError leaves none.
ViewExecute ==
    /\ \E name \in ToolUniverse, outcome \in ToolOutcomes :
        /\ view_call' = IF filtered
                        THEN RestrictedToolRegistry_execute(view_tools, name, outcome)
                        ELSE ToolRegistry_execute(view_tools, name, outcome)
        /\ view_obs' = IF view_call'.status = "raised" THEN <<>>
                       ELSE Actor_act(<<[id |-> "c1", name |-> name]>>,
                                      <<view_call'.status>>).observations
    /\ UNCHANGED <<parent_tools, filtered, allow_list, view_tools>>
    /\ UNCHANGED nonViewVars

ViewNext == ViewExecute

ViewSpec == ViewInit /\ [][ViewNext]_vars

\* The sub-agent calls subagent_call, which its registry holds, and the agent
\* launched by it executes a tool request.  The SubAgentCallTool is the one
\* object the router registered, constructed over the shared registry, so the
\* launched agent's registry is built from the shared registry and the
\* launched agent's own tool_filter.
ViewNestedExecute ==
    /\ "subagent_call" \in view_tools
    /\ \E has_filter \in BOOLEAN, name \in ToolUniverse, outcome \in ToolOutcomes :
        \E tool_filter \in IF has_filter THEN SUBSET ToolUniverse ELSE {{}} :
            LET nested == SubToolRegistry(parent_tools, has_filter, tool_filter)
            IN /\ view_call' = IF has_filter
                               THEN RestrictedToolRegistry_execute(nested, name, outcome)
                               ELSE ToolRegistry_execute(nested, name, outcome)
               /\ view_obs' = IF view_call'.status = "raised" THEN <<>>
                              ELSE Actor_act(<<[id |-> "c1", name |-> name]>>,
                                             <<view_call'.status>>).observations
    /\ UNCHANGED <<parent_tools, filtered, allow_list, view_tools>>
    /\ UNCHANGED nonViewVars

NestedViewSpec == ViewInit /\ [][ViewExecute \/ ViewNestedExecute]_vars

\* C4: execute(name) on the restricted registry with a name outside the
\* allow-list returns an Error result and invokes no tool, whether or not
\* the parent registry has the tool.
C4_OutsideAllowListRejected ==
    (filtered /\ view_call.name \in ToolUniverse /\ view_call.name \notin allow_list)
    => (view_call.status = "error" /\ view_call.invoked = "none")

C4_Witness ==
    /\ filtered
    /\ view_call.name = "danger_tool"
    /\ "danger_tool" \in parent_tools
    /\ "danger_tool" \notin allow_list
    /\ "web_search" \in view_tools
    /\ view_call.error = "PermissionError"

\* C22: in a local-L3 sub-agent whose tool_filter is F, a request naming a
\* tool outside F, present in the shared registry or not, gets an
\* observation whose result is the PermissionError Error, and the tool is
\* not executed.
C22_FilteredRequestDenied ==
    (filtered /\ view_call.name \in ToolUniverse /\ view_call.name \notin allow_list)
    => /\ Len(view_obs) = 1
       /\ view_obs[1].tool_name = view_call.name
       /\ view_obs[1].result = "error"
       /\ view_call.error = "PermissionError"
       /\ view_call.invoked = "none"

\* tool_filter = [web_search] over a shared registry that has danger_tool.
C22_Witness ==
    /\ filtered
    /\ allow_list = {"web_search"}
    /\ parent_tools = ToolUniverse
    /\ view_call.name = "danger_tool"
    /\ view_obs # <<>> /\ view_obs[1].tool_name = "danger_tool"
    /\ view_obs[1].result = "error"

----------------------------------------------------------------------------
(* actor.py: one Actor.act call over ToolRegistry.execute (ActSpec) *)

\* The tools registered in the registry the Actor was built with.
ActTools == {"web_search", "danger_tool"}

\* Requests the LLM can put into one ThinkResult; "ghost_tool" is a name
\* the registry does not have.
ActRequests == [id : CallIds, name : {"web_search", "ghost_tool"}]

DoneTask(name, outcome) ==
    [state |-> "done", outcome |-> outcome,
     out |-> ToolRegistry_execute(ActTools, name, outcome)]

\* The requests whose _execute_one task has not completed yet.
Running(tasks) == {k \in DOMAIN tasks : tasks[k].state = "running"}

\* Variant: the results come back in the order the tasks completed.
Gather_completionOrder(tasks, order) ==
    [k \in 1..Len(tasks) |-> tasks[order[k]].out]

\* asyncio.gather(*tasks, return_exceptions=True): one entry per task, in
\* the order the tasks were passed, whatever the order they completed in.
Gather(tasks, order) == [k \in 1..Len(tasks) |-> tasks[k].out]

\* Variant: the loop over the results stops at the first Error result.
Actor_act_results_stopsAtError(tool_calls, gathered) ==
    IF \E k \in DOMAIN gathered : gathered[k].status = "raised"
    THEN [kind |-> "raised", error |-> "TypeError",
          observations |-> <<>>, messages |-> <<>>]
    ELSE LET n == IF \E k \in DOMAIN gathered : gathered[k].status = "error"
                  THEN CHOOSE k \in DOMAIN gathered :
                           /\ gathered[k].status = "error"
                           /\ \A j \in 1..(k - 1) : gathered[j].status # "error"
                  ELSE Len(gathered)
             r == Actor_act(SubSeq(tool_calls, 1, n),
                            [k \in 1..n |-> gathered[k].status])
         IN [kind |-> "returned", error |-> "none",
             observations |-> r.observations, messages |-> r.messages]

\* The loop of act over gather's results.  _execute_one returns the pair
\* (to_json(), duration) of whatever ToolRegistry.execute returned; a
\* CancelledError that execute re-raised ends the child task and gather puts
\* the exception object in its place.  CancelledError is no Exception, so
\* the isinstance branch is skipped and unpacking the object raises TypeError.
Actor_act_results(tool_calls, gathered) ==
    IF \E k \in DOMAIN gathered : gathered[k].status = "raised"
    THEN [kind |-> "raised", error |-> "TypeError",
          observations |-> <<>>, messages |-> <<>>]
    ELSE LET r == Actor_act(tool_calls,
                            [k \in 1..Len(tool_calls) |-> gathered[k].status])
         IN [kind |-> "returned", error |-> "none",
             observations |-> r.observations, messages |-> r.messages]

ActInit ==
    /\ EngineIdle /\ CtxIdle /\ ViewIdle /\ InjectIdle /\ SkillIdle /\ L1Idle /\ RouterIdle
    /\ ServicesIdle
    /\ act_calls \in SeqsUpTo(ActRequests, MaxRequests)
    /\ act_tasks = [k \in 1..Len(act_calls) |->
                      [state |-> "running", outcome |-> "none", out |-> NoViewCall]]
    /\ act_order = <<>>
    /\ act_outcome = NoActResult

\* One _execute_one task completes: ToolRegistry.execute answered or raised.
ToolFinishes ==
    /\ act_outcome.kind = "none"
    /\ \E k \in Running(act_tasks), outcome \in ToolOutcomes :
        /\ act_tasks' = [act_tasks EXCEPT ![k] = DoneTask(act_calls[k].name, outcome)]
        /\ act_order' = Append(act_order, k)
    /\ UNCHANGED <<act_calls, act_outcome>>
    /\ UNCHANGED nonActVars

\* The task running act is cancelled while it awaits gather: gather cancels
\* the children still running and CancelledError is raised in act.
ActTaskCancelled ==
    /\ act_outcome.kind = "none"
    /\ Running(act_tasks) # {}
    /\ act_tasks' = [k \in DOMAIN act_tasks |->
                        IF act_tasks[k].state = "running"
                        THEN DoneTask(act_calls[k].name, "cancelled")
                        ELSE act_tasks[k]]
    /\ act_outcome' = [kind |-> "raised", error |-> "CancelledError",
                      observations |-> <<>>, messages |-> <<>>]
    /\ UNCHANGED <<act_calls, act_order>>
    /\ UNCHANGED nonActVars

\* Every task is done: gather returns and act builds its ActResult.
ActReturns ==
    /\ act_outcome.kind = "none"
    /\ Running(act_tasks) = {}
    /\ act_outcome' = Actor_act_results(act_calls, Gather(act_tasks, act_order))
    /\ UNCHANGED <<act_calls, act_tasks, act_order>>
    /\ UNCHANGED nonActVars

ActNext ==
    \/ ToolFinishes
    \/ ActTaskCancelled
    \/ ActReturns

ActSpec == ActInit /\ [][ActNext]_vars

\* C14: absent cancellation ToolRegistry.execute never raises; an
\* unregistered name gives an Error result and invokes no tool, a tool that
\* exceeds its timeout_ms gives the timeout Error, and a tool that raises an
\* exception gives the execution-exception Error.
C14_ExecuteNeverRaises ==
    \A k \in DOMAIN act_tasks :
        act_tasks[k].state = "done" =>
            LET t == act_tasks[k]
                registered == act_calls[k].name \in ActTools
            IN /\ t.outcome # "cancelled" => t.out.status # "raised"
               /\ ~registered => (t.out.status = "error" /\ t.out.invoked = "none")
               /\ (registered /\ t.outcome = "timeout") => t.out.error = "timeout"
               /\ (registered /\ t.outcome \in {"exception", "timeout_error"})
                     => (t.out.status = "error" /\ t.out.error = "exception")

\* C16: Actor.act never raises because of a failing tool request: what it
\* raises is a cancellation only, a cancellation surfacing from a tool
\* request leaves act as a cancellation, and in a returned ActResult every
\* failed request has an Error observation.
C16_ActRaisesOnlyCancellation ==
    /\ act_outcome.kind = "raised" => act_outcome.error = "CancelledError"
    /\ (act_outcome.kind # "none"
        /\ \E k \in DOMAIN act_tasks : act_tasks[k].out.status = "raised")
           => (act_outcome.kind = "raised" /\ act_outcome.error = "CancelledError")
    /\ act_outcome.kind = "returned" =>
           \A k \in DOMAIN act_tasks :
               act_tasks[k].outcome \notin {"success", "cancelled"}
                   => act_outcome.observations[k].result = "error"

\* C17: within one Act step the observations, the tool messages and the
\* actions the Observer records are in the order of the requests, each with
\* its own request's id and result, whatever order the tools completed in.
C17_RequestOrderKept ==
    act_outcome.kind = "returned" =>
        /\ Len(act_outcome.observations) = Len(act_calls)
        /\ Len(act_outcome.messages) = IF act_calls = <<>> THEN 0 ELSE Len(act_calls) + 1
        /\ \A k \in DOMAIN act_calls :
            /\ act_outcome.observations[k].tool_call_id = act_calls[k].id
            /\ act_outcome.observations[k].tool_name = act_calls[k].name
            /\ act_outcome.observations[k].result = act_tasks[k].out.status
            /\ act_outcome.messages[k + 1].role = "tool"
            /\ act_outcome.messages[k + 1].tool_call_id = act_calls[k].id
            /\ act_outcome.messages[k + 1].content = act_tasks[k].out.status
            /\ Observer_on_act(<<>>, 0, act_outcome.observations)[1].observations[k]
                   = [tool |-> act_calls[k].name, result |-> act_tasks[k].out.status]

\* Two requests whose tools completed in the reverse order with different
\* results.
C17_Witness ==
    /\ act_outcome.kind = "returned"
    /\ act_order = <<2, 1>>
    /\ act_calls[1].id = "c1" /\ act_calls[2].id = "c2"
    /\ act_outcome.observations[1].result = "error"
    /\ act_outcome.observations[2].result = "success"
    /\ act_outcome.messages[2].tool_call_id = "c1"

\* C18: the failure, timeout or Error result of one request neither cancels
\* nor prevents the others: every sibling runs to its own end and every
\* request gets its own observation and tool message.
C18_FailureIsolated ==
    /\ [][act_outcome'.error # "CancelledError" =>
            \A j, k \in DOMAIN act_tasks :
                (j # k /\ act_tasks'[k] # act_tasks[k]) => act_tasks'[j] = act_tasks[j]]_vars
    /\ [](\A k \in DOMAIN act_tasks :
            act_tasks[k].state = "done" =>
                \/ act_tasks[k].out = ToolRegistry_execute(ActTools, act_calls[k].name,
                                                           act_tasks[k].outcome)
                \/ act_outcome.error = "CancelledError")
    /\ [](act_outcome.kind = "returned" =>
           /\ Len(act_outcome.observations) = Len(act_calls)
           /\ \A k \in DOMAIN act_calls :
               /\ act_outcome.observations[k].tool_call_id = act_calls[k].id
               /\ act_outcome.observations[k].result = act_tasks[k].out.status
               /\ \E i \in DOMAIN act_outcome.messages :
                   /\ act_outcome.messages[i].role = "tool"
                   /\ act_outcome.messages[i].tool_call_id = act_calls[k].id
                   /\ act_outcome.messages[i].content = act_tasks[k].out.status)

\* The first request timed out before the second, which still succeeded
\* and has its observation.
C18_Witness ==
    /\ act_outcome.kind = "returned"
    /\ Len(act_calls) = 2
    /\ act_order = <<1, 2>>
    /\ act_tasks[1].outcome = "timeout" /\ act_tasks[1].out.error = "timeout"
    /\ act_tasks[2].out.status = "success"
    /\ act_outcome.observations[1].result = "error"
    /\ act_outcome.observations[2].result = "success"

----------------------------------------------------------------------------
(* prompts/markers.py and react_engine.py: Todo injection (Layer 3) *)

\* Text is a sequence of tokens.  The marker "\n\n---\n<!-- todo-reminder-start -->"
\* begins with a repeated newline and ends with a token found nowhere else in it.
TODO_REMINDER_MARKER == <<"nl", "nl", "start">>

PromptTokens == {"a", "nl", "start"}

Prompts == SeqsUpTo(PromptTokens, MaxPrompt)

\* `marker in text`
Contains(text, marker) ==
    \E i \in 1..(Len(text) - Len(marker) + 1) :
        SubSeq(text, i, i + Len(marker) - 1) = marker

\* text.index(marker): the first occurrence (1-based here)
IndexOf(text, marker) ==
    CHOOSE i \in 1..(Len(text) - Len(marker) + 1) :
        /\ SubSeq(text, i, i + Len(marker) - 1) = marker
        /\ \A j \in 1..(i - 1) : SubSeq(text, j, j + Len(marker) - 1) # marker

\* json.dumps(todos, indent=2): brackets around one token per item.
JsonDumps(todos) == <<"[">> \o todos \o <<"]">>

TodoBlock(todos) ==
    TODO_REMINDER_MARKER \o <<"header">> \o JsonDumps(todos) \o <<"todo-reminder-end">>

\* Variant: the block injected before is left in place.
StripTodoBlock_keeps(content) == content

\* base = content up to the marker, when the marker is in it.
StripTodoBlock(content) ==
    IF Contains(content, TODO_REMINDER_MARKER)
    THEN SubSeq(content, 1, IndexOf(content, TODO_REMINDER_MARKER) - 1)
    ELSE content

IsActive(status) == status \in {"pending", "in_progress"}

\* _inject_todo_reminder with `todos` the list TodoStore.get answered.
L3_inject_todo_reminder(msgs, session_id, todos) ==
    IF session_id = "" \/ msgs = <<>> \/ msgs[1].role # "system"
    THEN msgs
    ELSE LET active == SelectSeq(todos, IsActive)
             base == StripTodoBlock(msgs[1].content)
         IN IF active = <<>>
            THEN IF msgs[1].content = base
                 THEN msgs
                 ELSE [msgs EXCEPT ![1] = Msg("system", <<>>, "none", base)]
            ELSE [msgs EXCEPT ![1] = Msg("system", <<>>, "none", base \o TodoBlock(todos))]

\* Variant: the block is written into the list the caller passed.
L3_inject_caller_list_inPlace(msgs, session_id, todos) ==
    L3_inject_todo_reminder(msgs, session_id, todos)

\* The list object the caller passed, as it is after the call: every branch
\* that changes something works on `updated = list(messages)` and puts a new
\* dict at updated[0], so the argument keeps its items.
L3_inject_caller_list(msgs, session_id, todos) == msgs

InjectInit ==
    /\ ViewIdle /\ SkillIdle /\ ActIdle /\ L1Idle /\ RouterIdle
    /\ ServicesIdle
    /\ mode = "execute" /\ pc = "inject" /\ step = 0 /\ think_result = <<>>
    /\ config = [max_iterations |-> MaxInjections, timeout_seconds |-> 1,
                 max_llm_calls |-> MaxInjections]
    /\ llm_call_count = 0 /\ use_tools = <<>> /\ trace = <<>> /\ elapsed = 0
    /\ ambient = [ctx |-> [agent_depth |-> 0, session_id |-> ""], token |-> ""]
    /\ result = NoResult /\ events = <<>>
    /\ frames = <<>> /\ sibling = <<>> /\ tool_result = NoToolResult /\ cancel = "none"
    /\ \E sid \in Sessions \cup {""} : root_ctx = [agent_depth |-> 0, session_id |-> sid]
    /\ todo_store = [s \in Sessions |-> <<>>]
    /\ \E role \in {"system", "user"}, prompt \in Prompts :
        /\ messages = <<Msg(role, <<>>, "none", prompt), Msg("user", <<>>, "none", <<"a">>)>>
        /\ contents = <<prompt>>
    /\ injections = 0

\* One more run of the injection over its own output, the store unchanged.
Inject ==
    /\ injections < MaxInjections
    /\ messages' = L3_inject_todo_reminder(messages, root_ctx.session_id,
                        TodoStore_get(todo_store, root_ctx.session_id))
    /\ injections' = injections + 1
    /\ contents' = Append(contents, messages'[1].content)
    /\ UNCHANGED <<root_ctx, todo_store>>
    /\ UNCHANGED nonInjectVars

\* todo_write called by the agent between two injections (the Act step of
\* one iteration; the next iteration's injection follows).
InjectTodoWrite ==
    /\ injections < MaxInjections
    /\ \E todos \in {t \in TodoLists : Len(t) <= 1} :
        /\ todo_store' = TodoStore_set(todo_store, root_ctx.session_id, todos)
        /\ tool_result' = [tool |-> "todo_write", depth |-> 0,
                           status |-> "success", todos |-> todos]
    /\ UNCHANGED <<root_ctx, messages, injections, contents>>
    /\ UNCHANGED <<mode, config, pc, step, think_result, llm_call_count, use_tools,
                   ambient, trace, elapsed, result, events, frames, sibling, cancel,
                   viewVars, skillVars, actVars, l1Vars, routerVars, serviceVars>>

InjectNext == Inject \/ InjectTodoWrite

InjectSpec == InjectInit /\ [][InjectNext]_vars

\* C5: injecting again into the injection's own output leaves
\* messages[0].content as the first injection made it, however often it is
\* repeated; and for every fixed Todo snapshot, with or without active items,
\* a second injection into the result of the first changes nothing.
C5_InjectionIdempotent ==
    /\ \A i \in 2..Len(contents) : contents[i] = contents[2]
    /\ \A todos \in TodoLists :
        LET once == L3_inject_todo_reminder(messages, root_ctx.session_id, todos)
        IN L3_inject_todo_reminder(once, root_ctx.session_id, todos) = once

C5_Witness ==
    /\ injections >= 2
    /\ root_ctx.session_id # ""
    /\ messages[1].role = "system"
    /\ Contains(contents[1], TODO_REMINDER_MARKER)
    /\ contents[2] # contents[1]
    /\ Len(contents[2]) >= 1
    /\ \E todos \in TodoLists :
        Contains(L3_inject_todo_reminder(messages, root_ctx.session_id, todos)[1].content,
                 TODO_REMINDER_MARKER)

----------------------------------------------------------------------------
(* skills/loader.py, skills/registry.py, tools/builtin_tools/skill_exec.py *)

\* Names are sequences of characters, so that f"{skill}_{script}" is a real
\* concatenation: "a" + "_" + "b_c" and "a_b" + "_" + "c" give the same text.
SkillDirs == {<<"a">>, <<"a", "_", "b">>}

ScriptStems == {<<"c">>, <<"b", "_", "c">>, <<"d">>}

\* load_skill_from_dir: one ScriptTool per scripts/<stem>.py of the skill.
ScriptTool(name, stem) ==
    [tool_name |-> name \o <<"_">> \o stem, script_path |-> <<name, stem>>]

RECURSIVE Strip(_)
\* str.strip()
Strip(text) ==
    IF text = <<>> THEN text
    ELSE IF Head(text) = " " THEN Strip(Tail(text))
    ELSE IF text[Len(text)] = " " THEN Strip(SubSeq(text, 1, Len(text) - 1))
    ELSE text

\* Variant: the script is looked up by its tool name among all skills.
SkillRegistry_get_script_path_anySkill(reg, skill_name, script_name) ==
    LET expected == skill_name \o <<"_">> \o script_name
        found == {st \in UNION {reg[n] : n \in DOMAIN reg} : st.tool_name = expected}
    IN IF skill_name \notin DOMAIN reg \/ found = {} THEN <<>>
       ELSE (CHOOSE st \in found : TRUE).script_path

\* SkillRegistry.get_script_path; <<>> stands for None.
SkillRegistry_get_script_path(reg, skill_name, script_name) ==
    IF skill_name \notin DOMAIN reg THEN <<>>
    ELSE LET expected == skill_name \o <<"_">> \o script_name
             found == {st \in reg[skill_name] : st.tool_name = expected}
         IN IF found = {} THEN <<>> ELSE (CHOOSE st \in found : TRUE).script_path

\* How the script sub-process can end.
\* wait_for times out or communicate() returns; the exit code; stdout is a
\* JSON object, some other JSON value, or text that is not JSON (none is read
\* after a timeout); the object's "status" entry.
ScriptOutcomes ==
    {p \in [timeout : BOOLEAN, returncode : {0, 1},
            stdout : {"json_object", "json_other", "text", "none"},
            status : {"success", "error", "absent"}] :
        /\ p.timeout <=> p.stdout = "none"
        /\ p.timeout => p.returncode = 0
        /\ p.stdout # "json_object" => p.status = "absent"}

\* Variant: the exit code is not looked at.
SkillExecTool_run_script_anyExitCode(proc) ==
    IF proc.timeout THEN "error"
    ELSE IF proc.stdout # "json_object" THEN "error"
    ELSE IF proc.status = "error" THEN "error"
    ELSE "success"

\* _run_script: the status of the ToolResult it returns.  json.loads raises
\* JSONDecodeError on text; on a JSON value that is no object result_data.get
\* raises AttributeError, which `except Exception` answers with a fail.
SkillExecTool_run_script(proc) ==
    IF proc.timeout THEN "error"
    ELSE IF proc.returncode # 0 THEN "error"
    ELSE IF proc.stdout = "text" THEN "error"
    ELSE IF proc.stdout = "json_other" THEN "error"
    ELSE IF proc.status = "error" THEN "error"
    ELSE "success"

SkillExec_execute(reg, skill_arg, script_arg, outcome) ==
    LET skill_name == Strip(skill_arg)
        script_name == Strip(script_arg)
        script_path == SkillRegistry_get_script_path(reg, skill_name, script_name)
    IN IF skill_name = <<>> \/ script_name = <<>>
       THEN [skill_name |-> skill_arg, script |-> script_arg, status |-> "error", ran |-> <<>>,
             proc |-> NoExecCall.proc]
       ELSE IF script_path = <<>>
       THEN [skill_name |-> skill_arg, script |-> script_arg, status |-> "error", ran |-> <<>>,
             proc |-> NoExecCall.proc]
       ELSE [skill_name |-> skill_arg, script |-> script_arg,
             status |-> SkillExecTool_run_script(outcome),
             ran |-> script_path, proc |-> outcome]

\* The registry after loading: any subset of the skill directories, each with
\* any subset of the scripts.
SkillInit ==
    /\ EngineIdle /\ CtxIdle /\ ViewIdle /\ InjectIdle /\ ActIdle /\ L1Idle /\ RouterIdle
    /\ ServicesIdle
    /\ \E loaded \in SUBSET SkillDirs :
        \E stems \in [loaded -> SUBSET ScriptStems] :
            skills = [n \in loaded |-> {ScriptTool(n, st) : st \in stems[n]}]
    /\ exec_call = NoExecCall

SkillArgs == SkillDirs \cup {<<>>, <<" ", "a">>, <<"z">>}

ScriptArgs == ScriptStems \cup {<<>>, <<" ">>, <<"c", " ">>, <<".", ".", "/", "c">>}

SkillExec ==
    /\ \E skill_arg \in SkillArgs, script_arg \in ScriptArgs, outcome \in ScriptOutcomes :
        exec_call' = SkillExec_execute(skills, skill_arg, script_arg, outcome)
    /\ UNCHANGED skills
    /\ UNCHANGED nonSkillVars

SkillNext == SkillExec

SkillSpec == SkillInit /\ [][SkillNext]_vars

\* The scripts enumerated for a skill when it was loaded.
Enumerated(reg, skill_name) ==
    IF skill_name \in DOMAIN reg THEN {st.script_path : st \in reg[skill_name]} ELSE {}

\* C7: skill_exec runs a script only if the (skill, script) pair is one of
\* the scripts enumerated for that registered skill, and then that script;
\* for any other pair it returns an Error result and runs nothing.
C7_OnlyEnumeratedScriptsRun ==
    exec_call.status # "none" =>
        LET pair == <<Strip(exec_call.skill_name), Strip(exec_call.script)>>
        IN IF pair \in Enumerated(skills, pair[1])
           THEN exec_call.ran = pair
           ELSE exec_call.ran = <<>> /\ exec_call.status = "error"

C7_Witness ==
    /\ exec_call.status = "error"
    /\ exec_call.ran = <<>>
    /\ exec_call.skill_name = <<"a">>
    /\ exec_call.script = <<"b", "_", "c">>
    /\ <<"a", "_", "b">> \in DOMAIN skills
    /\ <<<<"a", "_", "b">>, <<"c">>>> \in Enumerated(skills, <<"a", "_", "b">>)
    /\ <<"a">> \in DOMAIN skills

\* C34: a skill_exec that ran a script returns Success only if the script
\* exited with code 0, within the timeout, and its stdout is a JSON object
\* whose status is not "error"; a non-zero exit, stdout that is not JSON, a
\* payload with status "error" and a timeout each give an Error result.
C34_SuccessNeedsCleanJsonExit ==
    exec_call.ran # <<>> =>
        /\ exec_call.status \in {"success", "error"}
        /\ exec_call.status = "success"
            <=> /\ ~exec_call.proc.timeout
                /\ exec_call.proc.returncode = 0
                /\ exec_call.proc.stdout = "json_object"
                /\ exec_call.proc.status # "error"

C34_Witness ==
    /\ exec_call.ran # <<>>
    /\ exec_call.status = "error"
    /\ ~exec_call.proc.timeout
    /\ exec_call.proc.returncode = 1
    /\ exec_call.proc.stdout = "json_object"
    /\ exec_call.proc.status = "success"

----------------------------------------------------------------------------
(* Properties of one L3 execution (EngineSpec) *)

\* C1: at every point of an L3 execution the reasoning trace holds at most
\* max_iterations steps.
C1_TraceWithinMaxIterations == Len(trace) <= config.max_iterations

C1_Witness ==
    /\ pc = "done"
    /\ config.max_iterations >= 2
    /\ Len(trace) = config.max_iterations
    /\ \E i \in 1..Len(trace) : Len(trace[i].observations) >= 2

\* C2: at every point of an L3 execution the LLM-call count is at most
\* max_llm_calls.
C2_LlmCallsWithinBudget == llm_call_count <= config.max_llm_calls

C2_Witness ==
    /\ llm_call_count = config.max_llm_calls
    /\ llm_call_count >= 2
    /\ config.max_iterations > config.max_llm_calls

\* What the pre-iteration check is documented to answer.
DocumentedStop(secs, count, cfg) ==
    IF secs > cfg.timeout_seconds
    THEN [raised |-> FALSE, stop |-> TRUE, reason |-> "timeout"]
    ELSE IF count >= cfg.max_llm_calls
    THEN [raised |-> FALSE, stop |-> TRUE, reason |-> "budget"]
    ELSE [raised |-> FALSE, stop |-> FALSE, reason |-> "none"]

\* C8: when the pre-iteration check finds the time limit or the LLM-call
\* budget reached, the execution ends by returning a result with
\* is_degraded = true and degrade_reason = the reason ("timeout" or "budget").
C8_DegradesByReturning ==
    [][(/\ pc = "loop"
        /\ step < config.max_iterations
        /\ DocumentedStop(elapsed, llm_call_count, config).stop)
       => result' = Returned(TRUE, DocumentedStop(elapsed, llm_call_count, config).reason)]_vars

\* C9: should_stop answers (true, "timeout") when elapsed > timeout_seconds,
\* otherwise (true, "budget") when llm_call_count >= max_llm_calls, otherwise
\* (false, none).
C9_ShouldStopAnswers ==
    (pc = "loop" /\ step < config.max_iterations)
    => Observer_should_stop(elapsed, llm_call_count, config)
         = DocumentedStop(elapsed, llm_call_count, config)

\* Every assistant message with tool_calls is directly followed by one tool
\* message per call, in order, with the call's id, and by no further tool
\* message; every tool message belongs to such a run.
WellFormed(msgs) ==
    /\ \A i \in 1..Len(msgs) :
        (msgs[i].role = "assistant" /\ Len(msgs[i].tool_calls) > 0) =>
            LET n == Len(msgs[i].tool_calls)
            IN /\ i + n <= Len(msgs)
               /\ \A k \in 1..n :
                    /\ msgs[i + k].role = "tool"
                    /\ msgs[i + k].tool_call_id = msgs[i].tool_calls[k]
               /\ (i + n + 1 <= Len(msgs) => msgs[i + n + 1].role # "tool")
    /\ \A j \in 1..Len(msgs) :
        msgs[j].role = "tool" =>
            \E i \in 1..(j - 1) :
                /\ msgs[i].role = "assistant"
                /\ j - i <= Len(msgs[i].tool_calls)
                /\ \A k \in (i + 1)..j : msgs[k].role = "tool"

\* C10: after each Think -> Act step the message list is well-formed
\* (assistant-with-tool-calls, then exactly its tool messages in order).
C10_MessagesWellFormed == WellFormed(messages)

C10_Witness ==
    /\ step >= 2
    /\ \E i \in 1..Len(messages) :
        /\ messages[i].role = "assistant"
        /\ Len(messages[i].tool_calls) = 2
        /\ messages[i].tool_calls[1] # messages[i].tool_calls[2]
        /\ messages[i + 2].content = "error"

\* Each act call appends exactly one assistant message.
ActCalls(msgs) == Len(SelectSeq(msgs, LAMBDA m : m.role = "assistant"))

----------------------------------------------------------------------------
(* execution/l1/fast_track.py: L1FastTrack (L1Spec) *)

MAX_LOOP_STEPS == 3

\* The tools ExecutionRouter.__init__ registers in the registry L1 and L3
\* share, and the tier property of each.
RouterTools == {"web_search", "web_fetch", "todo_write", "todo_read",
                "skill_call", "skill_exec", "subagent_call"}

ToolTier(name) == IF name \in {"web_search", "web_fetch"} THEN {"L1", "L3"} ELSE {"L3"}

ToolRegistry_get_all_schemas(tools) == tools

ToolRegistry_get_schemas_by_tier(tools, tier) == {name \in tools : tier \in ToolTier(name)}

ResponseContents == {"text", "empty"}          \* response.content: some text, or ""

\* Variant: the tool schemas are passed on every step.
L1UseTools_always(s, schemas) == schemas # {}

\* use_tools = tool_schemas if step < _MAX_LOOP_STEPS - 1 else None, then
\* tested with `if use_tools:`.
L1UseTools(s, schemas) == schemas # {} /\ s < MAX_LOOP_STEPS - 1

\* What the LLM can answer: calls of the tools it was offered.
L1Responses(offered) ==
    [tool_calls : SeqsUpTo([id : {"c1"}, name : offered \cap {"web_search", "todo_write"}],
                           MaxRequests),
     content : ResponseContents]

L1Call(api, use, resp) ==
    [api |-> api, tools |-> use, tool_calls |-> resp.tool_calls, content |-> resp.content]

L1Init ==
    /\ EngineIdle /\ CtxIdle /\ ViewIdle /\ InjectIdle /\ SkillIdle /\ ActIdle
    /\ RouterIdle /\ ServicesIdle
    /\ l1_mode \in {"execute", "execute_stream"}
    /\ l1_schemas \in {ToolRegistry_get_all_schemas(tools) : tools \in {{}, RouterTools}}
    /\ l1_pc = "call"
    /\ l1_step = 0
    /\ l1_calls = <<>>
    /\ l1_messages = InitialMessages
    /\ l1_out = [kind |-> "none", reply |-> "none"]

\* One step's LLM call: chat_with_tools when tools are passed, chat on the
\* last step of execute.  Without tool calls execute breaks and returns;
\* execute_stream yields the content and returns, or goes on to chat_stream
\* when the content is empty.
L1CallLLM ==
    /\ l1_pc = "call"
    /\ l1_step < MAX_LOOP_STEPS
    /\ LET use == L1UseTools(l1_step, l1_schemas)
       IN /\ use \/ l1_mode = "execute"
          /\ \E resp \in L1Responses(IF use THEN l1_schemas ELSE {}) :
              /\ l1_calls' = Append(l1_calls,
                     L1Call(IF use THEN "chat_with_tools" ELSE "chat", use, resp))
              /\ IF resp.tool_calls # <<>>
                 THEN /\ l1_pc' = "tools"
                      /\ l1_messages' = Append(l1_messages,
                             Actor_build_assistant_message(resp.tool_calls))
                      /\ l1_out' = l1_out
                 ELSE IF l1_mode = "execute_stream" /\ resp.content = "empty"
                 THEN /\ l1_pc' = "stream"
                      /\ UNCHANGED <<l1_messages, l1_out>>
                 ELSE /\ l1_pc' = "done"
                      /\ l1_messages' = l1_messages
                      /\ l1_out' = [kind |-> "returned", reply |-> resp.content]
    /\ UNCHANGED <<l1_mode, l1_schemas, l1_step>>
    /\ UNCHANGED nonL1Vars

\* execute_stream generates the final reply with chat_stream: on a step
\* without tools, or after a chat_with_tools response that had neither tool
\* calls nor content.
L1ChatStream ==
    /\ l1_mode = "execute_stream"
    /\ \/ l1_pc = "stream"
       \/ (l1_pc = "call" /\ l1_step < MAX_LOOP_STEPS
           /\ ~L1UseTools(l1_step, l1_schemas))
    /\ \E resp \in L1Responses({}) :
        /\ l1_calls' = Append(l1_calls, L1Call("chat_stream", FALSE, resp))
        /\ l1_out' = [kind |-> "returned", reply |-> resp.content]
    /\ l1_pc' = "done"
    /\ UNCHANGED <<l1_mode, l1_schemas, l1_step, l1_messages>>
    /\ UNCHANGED nonL1Vars

\* The tool calls of the response are executed one after the other and their
\* results appended; the loop goes to its next step, or falls out of the
\* for statement after the last one.
L1Tools ==
    /\ l1_pc = "tools"
    /\ LET tcs == l1_calls[Len(l1_calls)].tool_calls
       IN \E results \in [1..Len(tcs) -> ToolStatus] :
           l1_messages' = l1_messages \o
               [k \in 1..Len(tcs) |-> Msg("tool", <<>>, tcs[k].id, results[k])]
    /\ l1_step' = l1_step + 1
    /\ IF l1_step + 1 < MAX_LOOP_STEPS
       THEN l1_pc' = "call" /\ l1_out' = l1_out
       ELSE IF l1_mode = "execute"
       THEN /\ l1_pc' = "done"
            /\ l1_out' = [kind |-> "returned",
                          reply |-> l1_calls[Len(l1_calls)].content]
       ELSE l1_pc' = "stream" /\ l1_out' = l1_out
    /\ UNCHANGED <<l1_mode, l1_schemas, l1_calls>>
    /\ UNCHANGED nonL1Vars

\* The LLM client raises, or the task is cancelled while it awaits the LLM
\* or a tool: neither method has an except clause for these.
L1Raises ==
    /\ l1_pc \in {"call", "tools", "stream"}
    /\ \E e \in IF l1_pc = "tools" THEN {"CancelledError"}
                ELSE {"LLMError", "CancelledError"} :
        l1_out' = [kind |-> "raised", reply |-> e]
    /\ l1_pc' = "done"
    /\ UNCHANGED <<l1_mode, l1_schemas, l1_step, l1_calls, l1_messages>>
    /\ UNCHANGED nonL1Vars

L1Next ==
    \/ L1CallLLM
    \/ L1ChatStream
    \/ L1Tools
    \/ L1Raises

L1Spec == L1Init /\ [][L1Next]_vars

\* C20 as stated: an L1 execution makes at most 3 LLM calls and runs at most
\* 2 rounds of tools, makes no LLM call after a response without tool calls,
\* and its third call is made without tools.
C20_StopsAtFirstAnswer ==
    /\ Len(l1_calls) <= 3
    /\ ActCalls(l1_messages) <= 2
    /\ \A i \in 1..(Len(l1_calls) - 1) : l1_calls[i].tool_calls # <<>>
    /\ Len(l1_calls) >= 3 => ~l1_calls[3].tools

\* C20 amended: at most 3 LLM calls and 2 rounds of tools, the third call
\* without tools; after a response without tool calls no tool runs and no
\* call with tools is made: execute returns that response, and
\* execute_stream makes one more call, chat_stream without tools, exactly
\* when the response came from chat_with_tools with empty content.
C20_BoundedLoop ==
    /\ Len(l1_calls) <= 3
    /\ ActCalls(l1_messages) <= 2
    /\ Len(l1_calls) >= 3 => ~l1_calls[3].tools
    /\ \A i \in DOMAIN l1_calls :
        l1_calls[i].tool_calls = <<>> =>
            /\ ActCalls(l1_messages)
                 = Cardinality({j \in 1..i : l1_calls[j].tool_calls # <<>>})
            /\ \/ i = Len(l1_calls)
               \/ /\ l1_mode = "execute_stream"
                  /\ l1_calls[i].api = "chat_with_tools"
                  /\ l1_calls[i].content = "empty"
                  /\ i + 1 = Len(l1_calls)
                  /\ l1_calls[i + 1].api = "chat_stream"
                  /\ ~l1_calls[i + 1].tools
    /\ (l1_pc = "done" /\ l1_out.kind = "returned") =>
        /\ l1_calls # <<>>
        /\ l1_calls[Len(l1_calls)].tool_calls = <<>>
        /\ l1_out.reply = l1_calls[Len(l1_calls)].content
        /\ l1_mode = "execute" => \A i \in 1..(Len(l1_calls) - 1) : l1_calls[i].tool_calls # <<>>
        /\ (l1_mode = "execute_stream" /\ Len(l1_calls) >= 2
            /\ l1_calls[Len(l1_calls) - 1].tool_calls = <<>>)
               => l1_calls[Len(l1_calls) - 1].content = "empty"

\* execute_stream: a round of tools, then a chat_with_tools response with
\* neither tool calls nor content, then the third call, chat_stream.
C20_Witness ==
    /\ l1_mode = "execute_stream"
    /\ l1_pc = "done"
    /\ l1_out = [kind |-> "returned", reply |-> "text"]
    /\ Len(l1_calls) = 3
    /\ l1_calls[1].tool_calls # <<>>
    /\ l1_calls[2].api = "chat_with_tools" /\ l1_calls[2].tool_calls = <<>>
    /\ l1_calls[2].content = "empty"
    /\ l1_calls[3].api = "chat_stream" /\ ~l1_calls[3].tools
    /\ ActCalls(l1_messages) = 1

\* C21: L1FastTrack offers the LLM only tools whose tier contains L1: a tool
\* of tier {L3} only is never among the schemas L1 passes to the LLM and is
\* never executed by an L1 run.
C21_L1OffersOnlyL1Tools ==
    \A i \in DOMAIN l1_calls :
        /\ l1_calls[i].tools =>
               l1_schemas = ToolRegistry_get_schemas_by_tier(l1_schemas, "L1")
        /\ \A k \in DOMAIN l1_calls[i].tool_calls :
               "L1" \in ToolTier(l1_calls[i].tool_calls[k].name)

\* C23: when an LLM call fails with LLMError during an L3 execution, the
\* execution ends with that exception reaching the caller, neither a normal
\* nor a degraded result, and the ambient session_id is back at the value it
\* had before the call ("s0"); while the execution runs, execute and
\* execute_stream have the session of the call ("s1") set.
C23_LLMErrorReachesCaller ==
    /\ [][(pc = "think" /\ result'.degrade_reason = "LLMError")
            => /\ pc' = "done"
               /\ result' = Raised("LLMError")
               /\ result'.kind # "returned" /\ ~result'.is_degraded
               /\ mode # "execute_raw" => ambient.ctx.session_id = "s1"
               /\ ambient'.ctx.session_id = "s0"]_vars
    /\ [](pc = "done" => ambient.ctx.session_id = "s0")

\* The second LLM call of an execute fails, after one round of tools.
C23_Witness ==
    /\ mode = "execute"
    /\ pc = "done"
    /\ result = Raised("LLMError")
    /\ llm_call_count = 1
    /\ Len(use_tools) = 2
    /\ ToolCallsMade(messages) >= 1
    /\ ambient.token = "s0"
    /\ ambient.ctx.session_id = "s0"

----------------------------------------------------------------------------
(* execution/router.py: ExecutionRouter (RouterSpec) *)

\* Variant: a route that is not standard_l1 goes to the L3 engine.
ExecutionRouter_dispatch_elseL3(r) == IF r = "standard_l1" THEN "l1" ELSE "l3"

\* if route == "standard_l1" ... elif route == "deep_l3" ... else: L1.
ExecutionRouter_dispatch(r) ==
    IF r = "standard_l1" THEN "l1"
    ELSE IF r = "deep_l3" THEN "l3"
    ELSE "l1"

RouterInit ==
    /\ EngineIdle /\ CtxIdle /\ ViewIdle /\ InjectIdle /\ SkillIdle /\ ActIdle /\ L1Idle
    /\ ServicesIdle
    /\ route \in {"standard_l1", "deep_l3", "l2_workflow", ""}
    /\ engines_called = <<>>

\* ExecutionRouter.execute / execute_stream: the call of the chosen engine's
\* method of the same name, over the registry the router built and, for L3,
\* with the L3Config the engine was constructed with.
Dispatch ==
    /\ engines_called = <<>>
    /\ engines_called' = <<ExecutionRouter_dispatch(route)>>
    /\ \E m \in {"execute", "execute_stream"} :
        IF ExecutionRouter_dispatch(route) = "l3"
        THEN /\ mode' = m
             /\ \E n \in 0..MaxIterations :
                 config' = [max_iterations |-> n, timeout_seconds |-> 1,
                            max_llm_calls |-> MaxLlmCalls]
             /\ pc' = "loop"
             /\ messages' = InitialMessages
             /\ ambient' = L3_enter(m, [agent_depth |-> 0, session_id |-> "s0"])
             /\ UNCHANGED <<step, think_result, llm_call_count, use_tools, trace,
                            elapsed, result, events>>
             /\ UNCHANGED l1Vars
        ELSE /\ l1_mode' = m
             /\ l1_schemas' = ToolRegistry_get_all_schemas(RouterTools)
             /\ l1_pc' = "call"
             /\ l1_messages' = InitialMessages
             /\ UNCHANGED <<l1_step, l1_calls, l1_out>>
             /\ UNCHANGED engineVars
    /\ UNCHANGED <<route, ctxVars, viewVars, injectVars, skillVars, actVars, serviceVars>>

RouterNext ==
    \/ Dispatch
    \/ EngineNext
    \/ L1Next

RouterSpec == RouterInit /\ [][RouterNext]_vars

\* C24: a router call invokes exactly one engine: the L3 engine iff the
\* route is deep_l3, the L1 engine for standard_l1 and for every other
\* route, with the method the router was called with; the other engine
\* never starts.
C24_OneEnginePerCall ==
    /\ Len(engines_called) <= 1
    /\ engines_called = <<>> => (pc = "idle" /\ l1_pc = "idle")
    /\ engines_called # <<>> =>
        /\ engines_called[1] = "l3" <=> route = "deep_l3"
        /\ engines_called[1] = "l1" <=> route # "deep_l3"
        /\ pc # "idle" <=> route = "deep_l3"
        /\ l1_pc # "idle" <=> route # "deep_l3"

\* An unknown route has run the L1 engine to its end; the L3 engine is idle.
C24_Witness ==
    /\ route = "l2_workflow"
    /\ engines_called = <<"l1">>
    /\ l1_pc = "done" /\ l1_out.kind = "returned"
    /\ Len(l1_calls) = 3
    /\ pc = "idle"

----------------------------------------------------------------------------
(* Properties of the Todo tools and the Todo injection *)

\* C25: todo_write calls of one session that run concurrently are
\* serialised by the cache write: once they have completed, the stored list
\* is exactly the list of the call whose write came last, never a mixture.
C25_LastWriteWins ==
    (tool_result.tool = "todo_write" /\ tool_result.depth = 0
     /\ tool_result.status = "success")
    => todo_store[root_ctx.session_id] = tool_result.todos

\* C26: two subagent_call requests of one Act step each read the caller's
\* depth d and session at their guard, neither sees the d + 1 or the empty
\* session id the other has set; each runs at d + 1 and puts its own context
\* back, and the caller's context is left alone.
C26_NoLeakBetweenSiblings ==
    \A k \in DOMAIN sibling :
        LET first == frames[Len(frames)]
            caller == IF Len(frames) = 1 THEN root_ctx ELSE frames[Len(frames) - 1].ctx
        IN /\ sibling[k].entry = caller
           /\ sibling[k].entry = first.entry
           /\ sibling[k].pc = "running" =>
                 /\ sibling[k].ctx.agent_depth = caller.agent_depth + 1
                 /\ sibling[k].depth_token = caller.agent_depth
                 /\ sibling[k].sid_token = caller.session_id
           /\ sibling[k].pc = "finished" => sibling[k].ctx = caller
           /\ sibling[k].type = "none" =>
                 DepthExceeded(caller.agent_depth, Agents[sibling[k].agent].max_depth)
           /\ root_ctx = [agent_depth |-> 0, session_id |-> "s1"]

\* Both requests of the top-level Act step are in flight, each at depth 1
\* with the empty session id, each having read depth 0 and session "s1".
C26_Witness ==
    /\ Len(frames) = 1 /\ sibling # <<>>
    /\ frames[1].pc = "running" /\ sibling[1].pc = "running"
    /\ frames[1].agent = "remote" /\ sibling[1].agent = "remote"
    /\ frames[1].ctx.agent_depth = 1 /\ sibling[1].ctx.agent_depth = 1
    /\ sibling[1].entry = [agent_depth |-> 0, session_id |-> "s1"]
    /\ sibling[1].ctx.session_id = ""

\* C27: the Todo injection changes nothing but the content of messages[0]:
\* for every Todo snapshot the result has the messages of its argument in the
\* same order, every message after the first and the role of the first
\* unchanged, and the list the caller passed keeps its items; with an empty
\* session id, or a first message that is not a system message, the result
\* is the argument.  After any number of injections the message list still
\* ends with the one user message it started with.
C27_OnlyFirstContentChanges ==
    /\ Len(messages) = 2
    /\ messages[2] = Msg("user", <<>>, "none", <<"a">>)
    /\ \A todos \in TodoLists :
        LET out == L3_inject_todo_reminder(messages, root_ctx.session_id, todos)
        IN /\ Len(out) = Len(messages)
           /\ \A k \in 2..Len(messages) : out[k] = messages[k]
           /\ [out[1] EXCEPT !.content = messages[1].content] = messages[1]
           /\ L3_inject_caller_list(messages, root_ctx.session_id, todos) = messages
           /\ (root_ctx.session_id = "" \/ messages[1].role # "system") => out = messages

C27_Witness ==
    /\ injections >= 1
    /\ root_ctx.session_id # ""
    /\ messages[1].role = "system"
    /\ messages[1].content # contents[1]
    /\ \E todos \in TodoLists :
        L3_inject_todo_reminder(messages, root_ctx.session_id, todos)[1].content
            # messages[1].content

\* The list the session wrote last: the snapshot its last successful
\* todo_write reported as stored.
\* C28: an injection made with a non-empty session id into a system message
\* leaves messages[0].content with a Todo block iff the session's list has an
\* item that is pending or in_progress, and then with exactly one block, the
\* one carrying that list.
C28_BlockIffActive ==
    [][(injections' = injections + 1 /\ root_ctx.session_id # ""
            /\ messages[1].role = "system" /\ tool_result.tool = "todo_write")
        => LET after == messages'[1].content
               base == StripTodoBlock(after)
           IN /\ Contains(after, TODO_REMINDER_MARKER)
                    <=> SelectSeq(tool_result.todos, IsActive) # <<>>
              /\ Contains(after, TODO_REMINDER_MARKER)
                    => after = base \o TodoBlock(tool_result.todos)]_vars

----------------------------------------------------------------------------
(* tools/builtin_tools/todo_write.py, todo/schemas.py: normalisation *)

\* todo_write.execute behind ToolRegistry.execute, on the raw items the LLM
\* sent.  An item is a dict whose id is an integer, a string or absent, whose
\* status is a legal one or not, and whose priority is a legal one, absent or
\* not legal.  Each dict goes through str(id) and TodoItem(**t).model_dump():
\* a ValidationError leaves the loop before TodoStore.set is reached and the
\* registry turns it into an Error result.
TodoWriteTool_execute(store, session_id, raw) ==
    LET valid(t) == /\ t.id # "missing"
                    /\ t.status \in TodoStatus
                    /\ t.priority \in {"high", "medium", "low", "missing"}
        dump(t) == [id |-> "str", status |-> t.status,
                    priority |-> IF t.priority = "missing" THEN "medium"
                                 ELSE t.priority]
        todos == [k \in DOMAIN raw |-> dump(raw[k])]
    IN IF \E k \in DOMAIN raw : ~valid(raw[k])
       THEN [status |-> "error", todos |-> <<>>, store |-> store]
       ELSE [status |-> "success", todos |-> todos,
             store |-> TodoStore_set(store, session_id, todos)]

\* One todo_write call of the top-level agent.
TodoWriteCall ==
    /\ tool_result = NoToolResult
    /\ \E raw \in SeqsUpTo([id : {"int", "str", "missing"},
                            status : {"pending", "completed", "bogus"},
                            priority : {"missing", "high", "bogus"}], MaxTodos) :
        LET r == TodoWriteTool_execute(todo_store, root_ctx.session_id, raw)
        IN /\ todo_store' = r.store
           /\ tool_result' = [tool |-> "todo_write", depth |-> 0, status |-> r.status,
                              todos |-> r.todos, args |-> raw]
    /\ UNCHANGED <<root_ctx, frames, sibling, cancel>>
    /\ UNCHANGED nonCtxVars

TodoWriteSpec == CtxInit /\ [][TodoWriteCall]_vars

\* C29: after a todo_write the session's stored list is the normalised input
\* (every id a string, every priority set), whatever was stored before; after
\* a call with an invalid item the result is an Error and the stored list is
\* what it was.
C29_ReplacesWithNormalised ==
    tool_result.tool = "todo_write"
    => IF tool_result.status = "success"
       THEN /\ Len(tool_result.todos) = Len(tool_result.args)
            /\ \A k \in DOMAIN tool_result.todos :
                 tool_result.todos[k].status = tool_result.args[k].status
            /\ \A k \in DOMAIN tool_result.todos :
                 /\ tool_result.todos[k].id = "str"
                 /\ tool_result.todos[k].priority \in {"high", "medium", "low"}
            /\ Len(todo_store[root_ctx.session_id]) = Len(tool_result.todos)
            /\ todo_store[root_ctx.session_id] = tool_result.todos
       ELSE /\ tool_result.status = "error"
            /\ \E k \in DOMAIN tool_result.args :
                 \/ tool_result.args[k].id = "missing"
                 \/ tool_result.args[k].status \notin TodoStatus
                 \/ tool_result.args[k].priority = "bogus"
            /\ todo_store[root_ctx.session_id] = <<>>

\* C30: when the check at the head of an iteration reports stop, the
\* execution ends there with no further LLM call and no further tool call,
\* and returns a degraded result whose reply is built from the recorded
\* observations when there is at least one, and is the canned apology
\* otherwise.
C30_DegradedReplyFromObservations ==
    [][(/\ pc = "loop"
        /\ step < config.max_iterations
        /\ ~Observer_should_stop(elapsed, llm_call_count, config).raised
        /\ Observer_should_stop(elapsed, llm_call_count, config).stop)
       => /\ pc' = "done"
          /\ llm_call_count' = llm_call_count
          /\ trace' = trace
          /\ messages' = messages
          /\ result'.kind = "returned"
          /\ result'.is_degraded
          /\ IF \E k \in 1..Len(trace) : trace[k].observations # <<>>
             THEN /\ result'.reply.kind = "summary"
                  /\ [k \in 1..Len(result'.reply.parts) |-> result'.reply.parts[k].result]
                        = [k \in 1..Len(SelectSeq(messages, LAMBDA m : m.role = "tool")) |->
                              SelectSeq(messages, LAMBDA m : m.role = "tool")[k].content]
             ELSE result'.reply.kind = "apology"]_vars

\* C33: every tool request of a ThinkResult is executed exactly once and the
\* tool messages of its step, one per request and in the order of the
\* requests, are at the end of the messages before the next Thinker call; a
\* non-degraded result is returned only after a think that requested no tools.
C33_RequestsRunOnceBeforeNextThink ==
    /\ (pc \in {"loop", "think"} /\ step > 0)
        => LET n == Len(think_result)
               m == Len(messages)
           IN /\ n > 0 /\ m > n
              /\ messages[m - n].role = "assistant"
              /\ messages[m - n].tool_calls = [k \in 1..n |-> think_result[k].id]
              /\ \A k \in 1..n :
                   /\ messages[m - n + k].role = "tool"
                   /\ messages[m - n + k].tool_call_id = think_result[k].id
    /\ ToolCallsMade(messages)
         = Len(ReasoningTrace_summarize_observations(trace))
    /\ (result.kind = "returned" /\ ~result.is_degraded)
        => /\ think_result = <<>>
           /\ llm_call_count >= 1
           /\ trace # <<>> /\ trace[Len(trace)].thought

\* todo_read.execute: the list TodoStore.get hands back for the ambient
\* session id, always in a Success result.
TodoReadTool_execute(store, session_id) ==
    [status |-> "success", todos |-> TodoStore_get(store, session_id)]

\* C38: a todo_write that returned Success has persisted its list: a
\* todo_read issued next in the same ambient scope returns that list.
C38_SuccessMeansPersisted ==
    (tool_result.tool = "todo_write" /\ tool_result.status = "success")
    => TodoReadTool_execute(todo_store, root_ctx.session_id).todos
           = tool_result.todos

\* C39: in the tool_calls of a returned ExecutionResult a record has status
\* "success" only if the result recorded with it has status "success".
C39_SuccessRecordHasSuccessResult ==
    (pc = "done" /\ result.kind = "returned")
    => \A k \in DOMAIN ReasoningTrace_to_tool_call_records(trace) :
          LET rec == ReasoningTrace_to_tool_call_records(trace)[k]
          IN rec.status = "success" => rec.result = "success"

\* C37: after any number of injections messages[0].content begins with the
\* complete system prompt the execution started with, whatever text (the
\* user's input is part of it) that prompt contains.
C37_PromptKeptWhole ==
    \A i \in 1..Len(contents) :
        /\ Len(contents[i]) >= Len(contents[1])
        /\ SubSeq(contents[i], 1, Len(contents[1])) = contents[1]

\* C36: no tool outside a restricted sub-agent's allow-list is executed in
\* its subtree, neither by the sub-agent itself nor by an agent it launches
\* through subagent_call.
C36_SubtreeStaysInAllowList ==
    (filtered /\ view_call.invoked # "none")
    => view_call.invoked \in (allow_list \cap parent_tools)

----------------------------------------------------------------------------
(* sandbox_service/main.py: one container per (user_id, session_id) *)

\* Both services start with every engine-side subsystem at rest.
ServicesInit ==
    /\ EngineIdle /\ CtxIdle /\ ViewIdle /\ InjectIdle /\ SkillIdle /\ ActIdle
    /\ L1Idle /\ RouterIdle /\ ServicesIdle

\* The requests below are all for one (user_id, session_id): one container_key
\* and one container name "sandbox_{user_id}_{session_id[:8]}".
\* _get_or_create_container up to its first await: the membership test, and
\* for a key that is there the return of its container.
SandboxExecStart ==
    \E r \in 1..MaxExecs :
        /\ sandbox.reqs[r].pc = "idle"
        /\ sandbox' = IF sandbox.containers = <<>>
                      THEN [sandbox EXCEPT !.reqs[r].pc = "creating"]
                      ELSE [sandbox EXCEPT !.reqs[r] = [pc |-> "exec",
                                                        container |-> sandbox.containers[1]]]
        /\ UNCHANGED <<memory, engineVars, ctxVars, viewVars, injectVars, skillVars,
                       actVars, l1Vars, routerVars>>

\* await asyncio.to_thread(_create_container) returns or raises.  Docker
\* refuses a name that a container already has (409 Conflict), which
\* exec_command's `except Exception` turns into HTTP 500; otherwise the new
\* container is stored under the key and returned.
SandboxContainerRun ==
    \E r \in 1..MaxExecs :
        /\ sandbox.reqs[r].pc = "creating"
        /\ sandbox' = IF sandbox.live # {}
                      THEN [sandbox EXCEPT !.reqs[r] = [pc |-> "failed", container |-> 0]]
                      ELSE [sandbox EXCEPT !.made = @ + 1,
                                           !.live = {sandbox.made + 1},
                                           !.containers = <<sandbox.made + 1>>,
                                           !.reqs[r] = [pc |-> "exec",
                                                        container |-> sandbox.made + 1]]
        /\ UNCHANGED <<memory, engineVars, ctxVars, viewVars, injectVars, skillVars,
                       actVars, l1Vars, routerVars>>

\* container.exec_run in the container the request holds: it answers if the
\* container is still there and fails (HTTP 500) if it was destroyed.
SandboxExecRun ==
    \E r \in 1..MaxExecs :
        /\ sandbox.reqs[r].pc = "exec"
        /\ sandbox' = [sandbox EXCEPT !.reqs[r].pc =
                          IF sandbox.reqs[r].container \in sandbox.live
                          THEN "ran" ELSE "failed"]
        /\ UNCHANGED <<memory, engineVars, ctxVars, viewVars, injectVars, skillVars,
                       actVars, l1Vars, routerVars>>

\* _destroy_session (DELETE /session or the TTL sweep): pop the key, then
\* kill and remove its container.
SandboxDestroySession ==
    /\ sandbox.containers # <<>>
    /\ sandbox' = [sandbox EXCEPT !.containers = <<>>,
                                  !.live = @ \ {sandbox.containers[1]}]
    /\ UNCHANGED <<memory, engineVars, ctxVars, viewVars, injectVars, skillVars,
                   actVars, l1Vars, routerVars>>

SandboxSpec ==
    ServicesInit /\ [][SandboxExecStart \/ SandboxContainerRun \/ SandboxExecRun
                         \/ SandboxDestroySession]_vars

\* C35: the service never holds more than one live container for the
\* session, the container stored under its key is a live one, and every
\* /exec of the session that has been answered ran in the session's
\* container, two requests arriving before the first container exists included.
C35_OneContainerPerSession ==
    /\ Cardinality(sandbox.live) <= 1
    /\ sandbox.containers # <<>> => sandbox.containers[1] \in sandbox.live
    /\ \A r \in 1..MaxExecs :
        /\ (sandbox.reqs[r].pc \in {"exec", "ran"}
                /\ sandbox.reqs[r].container \in sandbox.live)
            => sandbox.reqs[r].container = sandbox.containers[1]
        \* the session's first container is still there: nothing was destroyed
        /\ (sandbox.made = 1 /\ sandbox.live # {}) => sandbox.reqs[r].pc # "failed"

----------------------------------------------------------------------------
(* memory/working_memory.py, memory/schemas.py: the conversation history *)

\* ConversationHistory.append: add the message; with more user messages than
\* max_turns, delete the oldest round, from the first user message up to the
\* second one.
ConversationHistory_append(msgs, msg, max_turns) ==
    LET all == Append(msgs, msg)
        users == {i \in 1..Len(all) : all[i].role = "user"}
    IN IF Cardinality(users) > max_turns
       THEN LET oldest_idx == CHOOSE i \in users : \A j \in users : i <= j
                later == users \ {oldest_idx}
                next_user_idx == IF later = {} THEN Len(all) + 1
                                 ELSE CHOOSE i \in later : \A j \in later : i <= j
            IN SubSeq(all, 1, oldest_idx - 1) \o SubSeq(all, next_user_idx, Len(all))
       ELSE all

\* append_message up to its first await: get_history reads the hash field
\* (an absent field is an empty history).
MemAppendRead ==
    \E c \in 1..MaxAppends :
        /\ memory.calls[c].pc = "idle"
        /\ memory' = [memory EXCEPT !.calls[c] = [pc |-> "read", read |-> memory.history]]
        /\ UNCHANGED <<sandbox, engineVars, ctxVars, viewVars, injectVars, skillVars,
                       actVars, l1Vars, routerVars>>

\* history.append(msg) on the copy that was read, then _hset_and_expire
\* writes the whole field.  Call c appends the message with id c.
MemAppendWrite ==
    \E c \in 1..MaxAppends, role \in {"user", "assistant"} :
        /\ memory.calls[c].pc = "read"
        /\ memory' = [memory EXCEPT
                !.history = ConversationHistory_append(memory.calls[c].read,
                                [role |-> role, message_id |-> c],
                                WORKING_MEMORY_MAX_TURNS),
                !.calls[c].pc = "done"]
        /\ UNCHANGED <<sandbox, engineVars, ctxVars, viewVars, injectVars, skillVars,
                       actVars, l1Vars, routerVars>>

MemSpec == ServicesInit /\ [][MemAppendRead \/ MemAppendWrite]_vars

\* C40: once append_message calls on the session have completed, the stored
\* history holds the message of each of them, whether or not the calls
\* overlapped.
C40_BothMessagesStored ==
    \A c \in 1..MaxAppends :
        memory.calls[c].pc = "done"
        => \E i \in 1..Len(memory.history) : memory.history[i].message_id = c

----------------------------------------------------------------------------
(* Properties of the event stream of execute_stream *)

\* C31: an execute_stream run that ends without an LLM error and without a
\* cancellation has yielded exactly one finish event, as its last event: on
\* the done path right after the final delta, on the degraded path the
\* finish that carries is_degraded and the reason.
C31_OneFinishLast ==
    [][(/\ mode = "execute_stream"
        /\ pc # "done" /\ pc' = "done"
        /\ result'.degrade_reason \notin {"LLMError", "CancelledError", "TypeError"})
       => /\ Len(events') >= 1
          /\ Len(SelectSeq(events', LAMBDA e : e \in {"finish", "finish_degraded"})) = 1
          /\ events'[Len(events')] =
                IF pc = "loop" /\ step < config.max_iterations
                THEN "finish_degraded" ELSE "finish"
          /\ pc = "think" => /\ Len(events') >= 2
                             /\ events'[Len(events') - 1] = "delta"]_vars

====
